---- MODULE Spec2Model ----
(***************************************************************************)
(* Model of the shielded-balance wallet core (PrivacyWallet) and of the    *)
(* collaborators it talks to (ContractService: chain and prover; browser   *)
(* localStorage).  One wallet instance, one browser profile, one chain.    *)
(***************************************************************************)
EXTENDS Integers, Sequences, FiniteSets, TLC

VARIABLES
    notes,            \* PrivacyWalletState.notes
    merkleTree,       \* PrivacyWalletState.merkleTree
    lastSyncedBlock,  \* PrivacyWalletState.lastSyncedBlock
    isInitialized,    \* PrivacyWalletState.isInitialized
    keys,             \* PrivacyWalletState.keys (<<>> is null, <<k>> is k)
    contractService,  \* PrivacyWallet.contractService is non-null
    storage,          \* localStorage under the four STORAGE_KEYS
    chainLog,         \* AccountUpdated events the chain emitted, in order
    nullifierUsed,    \* the chain's nullifierUsed mapping (set of nullifiers)
    currentBlock,     \* the chain's head block number
    keyGens,          \* number of key derivations signed so far (the nonce)
    calls,            \* in-flight asynchronous calls of wallet methods
    everSpent,        \* history: nullifiers of notes that were ever spent locally
    queryResult       \* result of the last pure query applied (SpecSelect)

vars == <<notes, merkleTree, lastSyncedBlock, isInitialized, keys,
          contractService, storage, chainLog, nullifierUsed, currentBlock,
          keyGens, calls, everSpent, queryResult>>

walletVars == <<notes, merkleTree, lastSyncedBlock, isInitialized, keys,
                contractService>>
chainVars == <<chainLog, nullifierUsed, currentBlock>>

----------------------------------------------------------------------------
(* Bounds of the model *)

MaxLeaves == 2        \* commitments the chain appends at most
MaxAmount == 2        \* largest amount of a deposit or an output
MaxOutputs == 2       \* longest output list of a transfer
MaxKeyGens == 1       \* key derivations at most
MaxSelNotes == 3      \* longest note list drawn for the pure queries
MaxTarget == 5        \* largest target amount drawn for the pure queries
MaxFaults == 1        \* localStorage writes that fail at most

(* Program constants *)
MAX_BLOCK_RANGE == 2  \* 10000 in the source, scaled to the block bound
TREE_DEPTH == 3       \* 32 in the source, scaled to the leaf bound

Slots == {1}            \* the slot of the serialized calls
SyncSlot == 2           \* the slot of a syncWithChain that runs beside them
AllSlots == Slots \cup {SyncSlot}
Signers == {"0xa1"}              \* accounts of the connected wallet
Tokens == {"0xAB"}               \* tokens of deposits
QueryTokens == {"0xab", "0xcd"}  \* tokens of transfers, withdrawals, queries
Amounts == 1..MaxAmount

Null == << >>
Some(v) == <<v>>
Min(a, b) == IF a < b THEN a ELSE b
Max(a, b) == IF a > b THEN a ELSE b

RECURSIVE SumSeq(_)
SumSeq(s) == IF s = << >> THEN 0 ELSE s[1] + SumSeq(Tail(s))

RECURSIVE Ascending(_)
\* the members of a finite set of numbers in ascending order
Ascending(S) ==
    IF S = {} THEN << >>
    ELSE LET m == CHOOSE x \in S : \A y \in S : x <= y
         IN  <<m>> \o Ascending(S \ {m})

----------------------------------------------------------------------------
(* Strings: letter case of hex addresses, decimal rendering of bigints *)

toLowerCase(str) == IF str = "0xAB" THEN "0xab" ELSE str

\* a Hex value is its digits plus whether its letters are written upper case
toLowerCaseHex(h) == [h EXCEPT !.upper = FALSE]

RECURSIVE BigIntToString(_)
BigIntToString(n) ==
    IF n < 10 THEN <<n>> ELSE Append(BigIntToString(n \div 10), n % 10)

RECURSIVE BigInt(_)
BigInt(str) ==
    IF str = << >> THEN 0
    ELSE BigInt(SubSeq(str, 1, Len(str) - 1)) * 10 + str[Len(str)]

RECURSIVE bytesToHexUnpadded(_)
\* bytesToHex writing a byte below 16 as one digit
bytesToHexUnpadded(bytes) ==
    IF bytes = << >> THEN << >>
    ELSE (IF bytes[1] < 16 THEN <<bytes[1]>>
          ELSE <<bytes[1] \div 16, bytes[1] % 16>>)
         \o bytesToHexUnpadded(Tail(bytes))

RECURSIVE bytesToHex(_)
bytesToHex(bytes) ==
    IF bytes = << >> THEN << >>
    ELSE <<bytes[1] \div 16, bytes[1] % 16>> \o bytesToHex(Tail(bytes))

RECURSIVE hexToBytes(_)
hexToBytes(hex) ==
    IF Len(hex) < 2 THEN << >>
    ELSE <<hex[1] * 16 + hex[2]>> \o hexToBytes(SubSeq(hex, 3, Len(hex)))

----------------------------------------------------------------------------
(* Commitments, nullifiers, the Merkle accumulator *)

\* a commitment binds (amount, blinding); distinct openings, distinct points
Commit(amount, blinding) == <<amount, blinding>>

ZeroLeaf == <<0, 0>>
HashPair(l, r) == <<l, r>>

RECURSIVE ZeroHash(_)
ZeroHash(level) ==
    IF level = 0 THEN ZeroLeaf
    ELSE HashPair(ZeroHash(level - 1), ZeroHash(level - 1))

RECURSIVE NodeAt(_, _, _)
\* the node at (level, index) of the tree over the ordered leaves
NodeAt(leaves, level, index) ==
    IF level = 0
    THEN IF index < Len(leaves) THEN leaves[index + 1] ELSE ZeroLeaf
    ELSE IF index * (2 ^ level) >= Len(leaves) THEN ZeroHash(level)
         ELSE HashPair(NodeAt(leaves, level - 1, 2 * index),
                       NodeAt(leaves, level - 1, 2 * index + 1))

NewMerkleTree ==
    [leaves |-> << >>, nextLeafIndex |-> 0, root |-> ZeroHash(TREE_DEPTH)]

insertLeaf(tree, commitment) ==
    LET ls == Append(tree.leaves, commitment)
    IN  [leaves |-> ls,
         nextLeafIndex |-> tree.nextLeafIndex + 1,
         root |-> NodeAt(ls, TREE_DEPTH, 0)]

\* index of the first leaf equal to the commitment, -1 when absent
findLeafIndex(tree, commitment) ==
    IF \E i \in 1..Len(tree.leaves) : tree.leaves[i] = commitment
    THEN (CHOOSE i \in 1..Len(tree.leaves) :
              /\ tree.leaves[i] = commitment
              /\ \A j \in 1..(i - 1) : tree.leaves[j] # commitment) - 1
    ELSE -1

serializeTree(tree) == tree.leaves

RECURSIVE InsertAll(_, _)
InsertAll(tree, cs) ==
    IF cs = << >> THEN tree ELSE InsertAll(insertLeaf(tree, cs[1]), Tail(cs))

deserializeTree(json) == InsertAll(NewMerkleTree, json)

computeNullifier(spendKeyHex, leafIndex, commitment) ==
    [sk |-> spendKeyHex, leafIndex |-> leafIndex, commitment |-> commitment,
     upper |-> FALSE]

----------------------------------------------------------------------------
(* Balance and note queries *)

\* getNotesForTokenIdx without the filter on spent
getNotesForTokenIdxWithSpent(ns, token) ==
    Ascending({i \in 1..Len(ns) :
        toLowerCase(ns[i].token) = toLowerCase(token)})

\* positions of the notes getNotesForToken returns: unspent, of the token
getNotesForTokenIdx(ns, token) ==
    Ascending({i \in 1..Len(ns) :
        ~ns[i].spent /\ toLowerCase(ns[i].token) = toLowerCase(token)})

getNotesForToken(ns, token) ==
    LET idx == getNotesForTokenIdx(ns, token)
    IN  [k \in 1..Len(idx) |-> ns[idx[k]]]

CompareAsc(ns, a, b) == ns[a].amount - ns[b].amount

\* the comparator of the sort: Number(b.amount - a.amount)
CompareDesc(ns, a, b) == ns[b].amount - ns[a].amount

RECURSIVE InsertSorted(_, _, _)
\* stable insertion of index i into the sorted index list acc
InsertSorted(ns, acc, i) ==
    IF acc = << >> THEN <<i>>
    ELSE IF CompareDesc(ns, acc[Len(acc)], i) <= 0 THEN Append(acc, i)
         ELSE Append(InsertSorted(ns, SubSeq(acc, 1, Len(acc) - 1), i),
                     acc[Len(acc)])

RECURSIVE SortIdx(_, _, _)
SortIdx(ns, idx, acc) ==
    IF idx = << >> THEN acc
    ELSE SortIdx(ns, Tail(idx), InsertSorted(ns, acc, idx[1]))

RECURSIVE GreedyStopsShort(_, _, _, _, _)
\* Greedy with the break taken one note early: the loop leaves as soon as
\* the next note would reach the target, without taking that note
GreedyStopsShort(ns, avail, target, selected, total) ==
    IF avail = << >> \/ total + ns[avail[1]].amount >= target
    THEN [idx |-> selected, total |-> total]
    ELSE GreedyStopsShort(ns, Tail(avail), target, Append(selected, avail[1]),
                          total + ns[avail[1]].amount)

RECURSIVE Greedy(_, _, _, _, _)
\* the for loop of selectNotesForAmount over the sorted candidates
Greedy(ns, avail, target, selected, total) ==
    IF avail = << >> \/ total >= target
    THEN [idx |-> selected, total |-> total]
    ELSE Greedy(ns, Tail(avail), target, Append(selected, avail[1]),
                total + ns[avail[1]].amount)

\* selectNotesForAmount; idx are the positions of the selected notes in ns
selectNotesForAmount(ns, token, targetAmount) ==
    LET availableNotes == SortIdx(ns, getNotesForTokenIdx(ns, token), << >>)
    IN  Greedy(ns, availableNotes, targetAmount, << >>, 0)

getShieldedBalance(ns) ==
    LET idx == Ascending({i \in 1..Len(ns) : ~ns[i].spent})
    IN  SumSeq([k \in 1..Len(idx) |-> ns[idx[k]].amount])

UnspentTotal(ns, token) ==
    LET av == getNotesForToken(ns, token)
    IN  SumSeq([k \in 1..Len(av) |-> av[k].amount])

\* getBalanceByToken: the Map filled by the loop over the notes; its keys are
\* the token strings as the unspent notes hold them
getBalanceByToken(ns) ==
    [t \in {ns[i].token : i \in {j \in 1..Len(ns) : ~ns[j].spent}} |->
        LET idx == Ascending({i \in 1..Len(ns) :
                                 ~ns[i].spent /\ ns[i].token = t})
        IN  SumSeq([k \in 1..Len(idx) |-> ns[idx[k]].amount])]

\* balances.get(token) ?? 0n
BalanceOfToken(balances, token) ==
    IF token \in DOMAIN balances THEN balances[token] ELSE 0

RECURSIVE SumOver(_, _)
\* the sum of the values of a Map over the keys ks
SumOver(balances, ks) ==
    IF ks = {} THEN 0
    ELSE LET t == CHOOSE x \in ks : TRUE
         IN  balances[t] + SumOver(balances, ks \ {t})

SumOfBalances(balances) == SumOver(balances, DOMAIN balances)

----------------------------------------------------------------------------
(* Persistence: localStorage under the four STORAGE_KEYS *)

\* faults counts the setItem calls that threw so far; it is no stored item
EmptyStorage ==
    [keys |-> Null, notes |-> Null, tree |-> Null, lastBlock |-> Null,
     faults |-> 0]

\* secp256k1.getPublicKey: the compressed point of a private scalar
getPublicKey(privateKey) == <<2>> \o privateKey

\* deriveKeyPairFromSignature: the scalar hashed from signature and purpose
\* (1: "view", 2: "spend") and its public key
deriveKeyPairFromSignature(signature, purpose) ==
    LET privateKey == <<signature, purpose>>
    IN  [privateKey |-> privateKey, publicKey |-> getPublicKey(privateKey)]

\* generateKeysFromWallet: both messages carry the nonce, so each call signs
\* new messages
generateKeysFromWallet(address, nonce) ==
    LET viewKeyPair == deriveKeyPairFromSignature(nonce, 1)
        spendKeyPair == deriveKeyPairFromSignature(nonce, 2)
    IN  [address |-> address,
         viewPrivateKey |-> viewKeyPair.privateKey,
         viewPublicKey |-> viewKeyPair.publicKey,
         spendPrivateKey |-> spendKeyPair.privateKey,
         spendPublicKey |-> spendKeyPair.publicKey]

serializeKeys(k) ==
    [address |-> k.address,
     viewPrivateKey |-> bytesToHex(k.viewPrivateKey),
     viewPublicKey |-> bytesToHex(k.viewPublicKey),
     spendPrivateKey |-> bytesToHex(k.spendPrivateKey),
     spendPublicKey |-> bytesToHex(k.spendPublicKey)]

deserializeKeys(json) ==
    [address |-> json.address,
     viewPrivateKey |-> hexToBytes(json.viewPrivateKey),
     viewPublicKey |-> hexToBytes(json.viewPublicKey),
     spendPrivateKey |-> hexToBytes(json.spendPrivateKey),
     spendPublicKey |-> hexToBytes(json.spendPublicKey)]

\* exportPublicKeys handing out the view private key as well
exportPublicKeysWithViewKey(k) ==
    [address |-> k.address,
     viewPrivateKey |-> bytesToHex(k.viewPrivateKey),
     viewPublicKey |-> bytesToHex(k.viewPublicKey),
     spendPublicKey |-> bytesToHex(k.spendPublicKey)]

exportPublicKeys(k) ==
    [address |-> k.address,
     viewPublicKey |-> bytesToHex(k.viewPublicKey),
     spendPublicKey |-> bytesToHex(k.spendPublicKey)]

loadKeysFromStorage(st) ==
    IF st.keys # Null THEN Some(deserializeKeys(st.keys[1])) ELSE Null

\* saved is FALSE when localStorage.setItem throws (the error is only logged)
saveKeysToStorage(st, k, saved) ==
    IF saved THEN [st EXCEPT !.keys = Some(serializeKeys(k))]
    ELSE [st EXCEPT !.faults = @ + 1]

NotesToJson(ns) ==
    [i \in 1..Len(ns) |->
        [ns[i] EXCEPT !.amount = BigIntToString(ns[i].amount),
                      !.blockNumber = BigIntToString(ns[i].blockNumber)]]

NotesFromJson(json) ==
    [i \in 1..Len(json) |->
        [json[i] EXCEPT !.amount = BigInt(json[i].amount),
                        !.blockNumber = BigInt(json[i].blockNumber)]]

\* saveStateToStorage; writes is the number of setItem calls that succeed
\* before one throws (3: none throws); the error is caught and logged
saveStateToStorage(st, ns, tree, lastBlock, writes) ==
    [keys |-> st.keys,
     notes |-> IF writes >= 1 THEN Some(NotesToJson(ns)) ELSE st.notes,
     tree |-> IF writes >= 2 THEN Some(serializeTree(tree)) ELSE st.tree,
     lastBlock |-> IF writes >= 3 THEN Some(BigIntToString(lastBlock))
                   ELSE st.lastBlock,
     faults |-> IF writes < 3 THEN st.faults + 1 ELSE st.faults]

\* LoadedNotes adding the stored notes to those of the ledger
LoadedNotesAppends(st, ns) ==
    IF st.notes # Null THEN ns \o NotesFromJson(st.notes[1]) ELSE ns

\* loadStateFromStorage: each part is replaced only when its key is present
LoadedNotes(st, ns) ==
    IF st.notes # Null THEN NotesFromJson(st.notes[1]) ELSE ns
LoadedTree(st, tree) ==
    IF st.tree # Null THEN deserializeTree(st.tree[1]) ELSE tree
LoadedLastBlock(st, lastBlock) ==
    IF st.lastBlock # Null THEN BigInt(st.lastBlock[1]) ELSE lastBlock

----------------------------------------------------------------------------
(* The chain collaborator *)

\* getAccountUpdatedEvents(fromBlock, 'latest'), given the head it read
ActualFromBlock(fromBlock, headRead) ==
    LET rangeStart == IF headRead > MAX_BLOCK_RANGE
                      THEN headRead - MAX_BLOCK_RANGE ELSE 0
    IN  IF fromBlock > rangeStart THEN fromBlock ELSE rangeStart

getAccountUpdatedEvents(log, fromBlock, headRead) ==
    LET from == ActualFromBlock(fromBlock, headRead)
        idx == Ascending({i \in 1..Len(log) : log[i].blockNumber >= from})
    IN  [k \in 1..Len(idx) |-> log[idx[k]]]

\* the commitments a mined transaction appends, all in block b
RECURSIVE AppendEvents(_, _, _)
AppendEvents(log, amounts, b) ==
    IF amounts = << >> THEN log
    ELSE AppendEvents(
            Append(log, [commitment |-> Commit(amounts[1], 2 * (Len(log) + 1)),
                         blockNumber |-> b]),
            Tail(amounts), b)

----------------------------------------------------------------------------
(* Calls of the asynchronous wallet methods *)

IdleCall ==
    [name |-> "idle", pc |-> "idle", result |-> "none",
     token |-> "", amount |-> 0, commitment |-> Null, outputs |-> << >>, inputs |-> << >>,
     finalOutputs |-> << >>, signer |-> "", loadedKeys |-> Null,
     fromBlock |-> 0, headRead |-> 0, noteIdx |-> 0, proof |-> "none",
     proverCalled |-> FALSE, proverOutcome |-> "none", chainCalled |-> FALSE,
     submitted |-> FALSE, txOutcome |-> "none", blockNumber |-> 0,
     syncError |-> FALSE, aborted |-> FALSE, origin |-> Null, pre |-> Null,
     changeRecipient |-> Null]

Snapshot == Some([notes |-> notes, merkleTree |-> merkleTree,
                  lastSyncedBlock |-> lastSyncedBlock, storage |-> storage,
                  keys |-> keys])

NewCall(name) == [IdleCall EXCEPT !.name = name, !.pc = "start", !.pre = Snapshot]

\* mutating operations are serialized: one call in flight at a time
CanStart(s) == \A t \in AllSlots : calls[t].pc = "idle"

Throw(c, msg) == [c EXCEPT !.pc = "done", !.result = msg]
Finish(c) == [c EXCEPT !.pc = "done", !.result = "ok"]

SpentNullifiers(ns) == {ns[i].nullifier : i \in {j \in 1..Len(ns) : ns[j].spent}}

----------------------------------------------------------------------------
(* Construction, initialization, reset *)

Init ==
    /\ notes = << >>
    /\ merkleTree = NewMerkleTree
    /\ lastSyncedBlock = 0
    /\ isInitialized = FALSE
    /\ keys = Null
    /\ contractService = FALSE
    /\ storage = EmptyStorage
    /\ chainLog = << >>
    /\ nullifierUsed = {}
    /\ currentBlock = 0
    /\ keyGens = 0
    /\ calls = [s \in AllSlots |-> IdleCall]
    /\ everSpent = {}
    /\ queryResult = Null

\* the page is reloaded: a new PrivacyWallet() replaces the instance and
\* whatever call was in flight is gone; localStorage and the chain stay
Construct ==
    /\ notes' = << >>
    /\ merkleTree' = NewMerkleTree
    /\ lastSyncedBlock' = 0
    /\ isInitialized' = FALSE
    /\ keys' = Null
    /\ contractService' = FALSE
    /\ calls' = [s \in AllSlots |-> IdleCall]
    /\ UNCHANGED <<storage, chainVars, keyGens, everSpent, queryResult>>

\* SyncBegin without the short-circuit of the empty wallet
SyncBeginAlways(c, ns, lastBlock) ==
    [c EXCEPT !.pc = "sync_block", !.fromBlock = lastBlock,
              !.chainCalled = TRUE]

\* syncWithChain up to its first await, on the state (ns, lastBlock)
SyncBegin(c, ns, lastBlock) ==
    IF ns = << >> /\ lastBlock = 0
    THEN Finish(c)
    ELSE [c EXCEPT !.pc = "sync_block", !.fromBlock = lastBlock,
                   !.chainCalled = TRUE]

\* initialize sets isInitialized once its syncWithChain has returned
InitDone(c) == c.name = "initialize" /\ c.pc = "done" /\ c.result = "ok"

\* initialize from the creation of the contract service on, with keys k
InitRest(s, c, k) ==
    /\ keys' = k
    /\ contractService' = TRUE
    /\ notes' = LoadedNotes(storage, notes)
    /\ merkleTree' = LoadedTree(storage, merkleTree)
    /\ lastSyncedBlock' = LoadedLastBlock(storage, lastSyncedBlock)
    /\ calls' = [calls EXCEPT ![s] = SyncBegin(c, notes', lastSyncedBlock')]
    /\ isInitialized' = (isInitialized \/ InitDone(calls'[s]))
    /\ everSpent' = everSpent \cup SpentNullifiers(notes')

InitializeCall(s, signer) ==
    /\ CanStart(s)
    /\ LET c == [NewCall("initialize") EXCEPT
                    !.signer = signer,
                    !.loadedKeys = loadKeysFromStorage(storage)]
       IN  IF c.loadedKeys # Null
           THEN /\ calls' = [calls EXCEPT ![s] = [c EXCEPT !.pc = "init_addresses"]]
                /\ UNCHANGED <<walletVars, everSpent>>
           ELSE IF keys = Null
           THEN /\ calls' = [calls EXCEPT ![s] = [c EXCEPT !.pc = "init_generate"]]
                /\ UNCHANGED <<walletVars, everSpent>>
           ELSE InitRest(s, c, keys)
    /\ UNCHANGED <<storage, chainVars, keyGens, queryResult>>

\* walletClient.getAddresses() settles
InitializeAddresses(s, ok) ==
    LET c == calls[s]
        k == IF c.loadedKeys[1].address = c.signer THEN c.loadedKeys ELSE keys
    IN  /\ c.pc = "init_addresses"
        /\ IF ~ok
           THEN /\ calls' = [calls EXCEPT ![s] = Throw(c, "getAddresses failed")]
                /\ UNCHANGED <<walletVars, everSpent>>
           ELSE IF k = Null
           THEN /\ calls' = [calls EXCEPT ![s] = [c EXCEPT !.pc = "init_generate"]]
                /\ UNCHANGED <<walletVars, everSpent>>
           ELSE InitRest(s, c, k)
        /\ UNCHANGED <<storage, chainVars, keyGens, queryResult>>

\* KeyDerivation.generateKeysFromWallet settles; the nonce makes the keys new
InitializeGenerate(s, ok, saved) ==
    LET c == calls[s]
        k == generateKeysFromWallet(c.signer, keyGens + 1)
    IN  /\ c.pc = "init_generate"
        /\ IF ~ok
           THEN /\ calls' = [calls EXCEPT ![s] = Throw(c, "Key generation failed")]
                /\ UNCHANGED <<walletVars, everSpent, storage, keyGens>>
           ELSE /\ keyGens < MaxKeyGens
                /\ keyGens' = keyGens + 1
                /\ storage' = saveKeysToStorage(storage, k, saved)
                /\ InitRest(s, c, Some(k))
        /\ UNCHANGED <<chainVars, queryResult>>

clearStorage ==
    /\ CanStart(1)
    /\ storage' = [EmptyStorage EXCEPT !.faults = storage.faults]
    /\ notes' = << >>
    /\ merkleTree' = NewMerkleTree
    /\ lastSyncedBlock' = 0
    /\ isInitialized' = FALSE
    /\ keys' = Null
    /\ UNCHANGED <<contractService, chainVars, keyGens, calls, everSpent,
                   queryResult>>

\* the caller takes the settled promise
Return(s) ==
    /\ calls[s].pc = "done"
    /\ calls' = [calls EXCEPT ![s] = IdleCall]
    /\ UNCHANGED <<walletVars, storage, chainVars, keyGens, everSpent,
                   queryResult>>

----------------------------------------------------------------------------
(* syncWithChain *)

\* the wallet and the chain as a first syncWithChain attempt finds them
Origin == Some([notes |-> notes, merkleTree |-> merkleTree,
                lastSyncedBlock |-> lastSyncedBlock, chainLog |-> chainLog,
                nullifierUsed |-> nullifierUsed,
                currentBlock |-> currentBlock])

\* syncWithChain is entered with call record c
SyncStart(s, c) ==
    /\ calls' = [calls EXCEPT
              ![s] = IF ~contractService THEN Finish(c)
                     ELSE SyncBegin(c, notes, lastSyncedBlock)]
    /\ UNCHANGED <<walletVars, storage, chainVars, keyGens, everSpent,
                   queryResult>>

SyncWithChainCall(s) ==
    /\ CanStart(s)
    /\ SyncStart(s, [NewCall("syncWithChain") EXCEPT !.origin = Origin])

\* syncWithChain is called while another call of the wallet is in flight
SyncWithChainBeside(s) ==
    /\ calls[s].pc = "idle"
    /\ SyncStart(s, [NewCall("syncWithChain") EXCEPT !.origin = Origin])

\* the caller of a syncWithChain that met an error calls it again
SyncWithChainRetry(s) ==
    /\ calls[s].name = "syncWithChain"
    /\ calls[s].pc = "done"
    /\ calls[s].syncError
    /\ SyncStart(s, [NewCall("syncWithChain") EXCEPT
                        !.origin = calls[s].origin, !.aborted = TRUE])

\* SyncCatch without the catch: the error reaches the caller
SyncRethrows(c) == Throw([c EXCEPT !.syncError = TRUE], "sync failed")

\* the catch block of syncWithChain: the error is logged, the call returns
SyncCatch(c) == Finish([c EXCEPT !.syncError = TRUE])

\* publicClient.getBlockNumber() settles
SyncBlockNumber(s, ok) ==
    LET c == calls[s]
        d == IF ok THEN [c EXCEPT !.pc = "sync_logs", !.headRead = currentBlock]
             ELSE SyncCatch(c)
    IN  /\ c.pc = "sync_block"
        /\ calls' = [calls EXCEPT ![s] = d]
        /\ isInitialized' = (isInitialized \/ InitDone(d))
        /\ UNCHANGED <<notes, merkleTree, lastSyncedBlock, keys,
                       contractService, storage, chainVars, keyGens,
                       everSpent, queryResult>>

RECURSIVE SyncTree(_, _)
\* the loop over the events: insert the commitments not found in the tree
SyncTree(tree, events) ==
    IF events = << >> THEN tree
    ELSE SyncTree(IF findLeafIndex(tree, events[1].commitment) = -1
                  THEN insertLeaf(tree, events[1].commitment) ELSE tree,
                  Tail(events))

\* NextUnspent with break in the place of continue: a spent note ends the loop
NextUnspentBreaks(ns, i) ==
    IF i < Len(ns) /\ ~ns[i + 1].spent THEN i + 1 ELSE 0

\* position of the first unspent note after position i, 0 when there is none
NextUnspent(ns, i) ==
    LET S == {j \in (i + 1)..Len(ns) : ~ns[j].spent}
    IN  IF S = {} THEN 0 ELSE CHOOSE j \in S : \A k \in S : j <= k

\* SyncLoop with a save whose failed write reaches the catch of syncWithChain
SyncLoopFailsOnWrite(s, c, j, ns, tree, lastBlock, writes) ==
    LET d == IF j = 0 THEN (IF writes < 3 THEN SyncCatch(c) ELSE Finish(c))
             ELSE [c EXCEPT !.pc = "sync_nullifier", !.noteIdx = j]
    IN  /\ calls' = [calls EXCEPT ![s] = d]
        /\ isInitialized' = (isInitialized \/ InitDone(d))
        /\ storage' = IF j = 0
                      THEN saveStateToStorage(storage, ns, tree, lastBlock,
                                              writes)
                      ELSE storage

\* the loop over the notes reaches position j (0: past the end, save, return)
SyncLoop(s, c, j, ns, tree, lastBlock, writes) ==
    LET d == IF j = 0 THEN Finish(c)
             ELSE [c EXCEPT !.pc = "sync_nullifier", !.noteIdx = j]
    IN  /\ calls' = [calls EXCEPT ![s] = d]
        /\ isInitialized' = (isInitialized \/ InitDone(d))
        /\ storage' = IF j = 0
                      THEN saveStateToStorage(storage, ns, tree, lastBlock,
                                              writes)
                      ELSE storage

\* publicClient.getLogs() settles
SyncLogs(s, ok, writes) ==
    LET c == calls[s]
        events == getAccountUpdatedEvents(chainLog, c.fromBlock, c.headRead)
        tree == SyncTree(merkleTree, events)
        lastBlock == IF Len(events) > 0
                     THEN events[Len(events)].blockNumber + 1
                     ELSE lastSyncedBlock
    IN  /\ c.pc = "sync_logs"
        /\ IF ~ok
           THEN /\ calls' = [calls EXCEPT ![s] = SyncCatch(c)]
                /\ isInitialized' = (isInitialized \/ InitDone(SyncCatch(c)))
                /\ UNCHANGED <<merkleTree, lastSyncedBlock, storage>>
           ELSE /\ merkleTree' = tree
                /\ lastSyncedBlock' = lastBlock
                /\ SyncLoop(s, c, NextUnspent(notes, 0), notes, tree,
                            lastBlock, writes)
        /\ UNCHANGED <<notes, keys, contractService, chainVars, keyGens,
                       everSpent, queryResult>>

\* isNullifierUsed answering true for every nullifier
isNullifierUsedAlways(used, nullifier) == TRUE

\* ContractService.isNullifierUsed: the contract's nullifierUsed mapping
isNullifierUsed(used, nullifier) == nullifier \in used

\* contractService.isNullifierUsed(note.nullifier) settles
SyncNullifierUsed(s, ok, writes) ==
    LET c == calls[s]
        i == c.noteIdx
        ns == IF isNullifierUsed(nullifierUsed, notes[i].nullifier)
              THEN [notes EXCEPT ![i].spent = TRUE] ELSE notes
    IN  /\ c.pc = "sync_nullifier"
        /\ IF ~ok
           THEN /\ calls' = [calls EXCEPT ![s] = SyncCatch(c)]
                /\ isInitialized' = (isInitialized \/ InitDone(SyncCatch(c)))
                /\ UNCHANGED <<notes, storage, everSpent>>
           ELSE /\ notes' = ns
                /\ everSpent' = everSpent \cup SpentNullifiers(ns)
                /\ SyncLoop(s, c, NextUnspent(ns, i), ns, merkleTree,
                            lastSyncedBlock, writes)
        /\ UNCHANGED <<merkleTree, lastSyncedBlock, keys, contractService,
                       chainVars, keyGens, queryResult>>

----------------------------------------------------------------------------
(* markNotesSpent *)

\* Array.find: position of the first note with that nullifier, 0 when none
FindNote(ns, nullifier) ==
    LET S == {i \in 1..Len(ns) :
                toLowerCaseHex(ns[i].nullifier) = toLowerCaseHex(nullifier)}
    IN  IF S = {} THEN 0 ELSE CHOOSE i \in S : \A k \in S : i <= k

\* markNotesSpent marking every note once a nullifier is given
markEveryNoteSpent(ns, nullifiers) ==
    IF nullifiers = << >> THEN ns
    ELSE [i \in 1..Len(ns) |-> [ns[i] EXCEPT !.spent = TRUE]]

RECURSIVE markNotesSpentToggles(_, _)
\* markNotesSpent flipping the flag of a found note instead of setting it
markNotesSpentToggles(ns, nullifiers) ==
    IF nullifiers = << >> THEN ns
    ELSE LET i == FindNote(ns, nullifiers[1])
         IN  markNotesSpentToggles(
                IF i = 0 THEN ns ELSE [ns EXCEPT ![i].spent = ~@],
                Tail(nullifiers))

RECURSIVE markNotesSpent(_, _)
markNotesSpent(ns, nullifiers) ==
    IF nullifiers = << >> THEN ns
    ELSE LET i == FindNote(ns, nullifiers[1])
         IN  markNotesSpent(IF i = 0 THEN ns ELSE [ns EXCEPT ![i].spent = TRUE],
                            Tail(nullifiers))

ForeignNullifier == computeNullifier(<<0, 0>>, 0, ZeroLeaf)

\* nullifiers a caller may pass: those of the notes, in either letter case,
\* and one that belongs to no note
NullifierInputs ==
    {[notes[i].nullifier EXCEPT !.upper = u] :
        i \in 1..Len(notes), u \in BOOLEAN} \cup {ForeignNullifier}

MarkNotesSpent(nullifiers, writes) ==
    /\ CanStart(1)
    /\ notes' = markNotesSpent(notes, nullifiers)
    /\ storage' = saveStateToStorage(storage, notes', merkleTree,
                                     lastSyncedBlock, writes)
    /\ everSpent' = everSpent \cup SpentNullifiers(notes')
    /\ UNCHANGED <<merkleTree, lastSyncedBlock, isInitialized, keys,
                   contractService, chainVars, keyGens, calls, queryResult>>

----------------------------------------------------------------------------
(* executeDeposit *)

\* prepareDeposit: createCommitment samples a blinding never used before
createCommitmentWithBlinding(amount, blinding) ==
    [commitment |-> Commit(amount, blinding), amount |-> amount,
     blinding |-> blinding]

createCommitment(amount) ==
    createCommitmentWithBlinding(amount, 2 * Len(chainLog) + 1)

\* how waiting for a submitted transaction can end: the receipt reports
\* success or a revert, or the wait itself fails, with the transaction
\* dropped ("throw") or mined all the same ("throw_mined")
WaitOutcomes == {"success", "reverted", "throw", "throw_mined"}
Mined(outcome) == outcome \in {"success", "throw_mined"}

\* waitForTransaction taking any receipt for a success
waitForTransactionAnyReceipt(outcome, block) ==
    [threw |-> outcome \in {"throw", "throw_mined"},
     success |-> TRUE,
     blockNumber |-> block]

\* ContractService.waitForTransaction
waitForTransaction(outcome, block) ==
    [threw |-> outcome \in {"throw", "throw_mined"},
     success |-> outcome = "success",
     blockNumber |-> block]

\* the call, up to the point where contractService.deposit() has settled
ExecuteDepositCall(s, token, amount, submitOk) ==
    /\ CanStart(s)
    /\ LET c == [NewCall("executeDeposit") EXCEPT
                    !.token = token, !.amount = amount,
                    !.commitment = Some(createCommitment(amount))]
       IN  calls' = [calls EXCEPT ![s] =
              IF ~contractService
              THEN Throw(c, "Contract service not initialized")
              ELSE IF ~submitOk
              THEN Throw([c EXCEPT !.chainCalled = TRUE], "deposit failed")
              ELSE [c EXCEPT !.chainCalled = TRUE, !.submitted = TRUE,
                             !.pc = "dep_wait"]]
    /\ UNCHANGED <<walletVars, storage, chainVars, keyGens, everSpent,
                   queryResult>>

\* executeDeposit from the settled waitForTransaction on, with its result
DepositReceipt(s, c, outcome, result, writes) ==
    LET cm == c.commitment[1]
        d == [c EXCEPT !.txOutcome = outcome,
                       !.blockNumber = IF result.threw THEN 0
                                       ELSE result.blockNumber]
        leafIndex == merkleTree.nextLeafIndex
        tree == insertLeaf(merkleTree, cm.commitment)
        note == [commitment |-> cm.commitment, amount |-> cm.amount,
                 blinding |-> cm.blinding, token |-> c.token,
                 leafIndex |-> leafIndex,
                 nullifier |-> computeNullifier(
                                  bytesToHex(keys[1].spendPrivateKey),
                                  leafIndex, cm.commitment),
                 spent |-> FALSE, blockNumber |-> result.blockNumber]
    IN  IF ~result.threw /\ result.success
        THEN /\ merkleTree' = tree
             /\ IF keys = Null
                THEN \* this.state.keys!.spendPrivateKey on null
                     /\ calls' = [calls EXCEPT ![s] = Throw(d, "TypeError")]
                     /\ UNCHANGED <<notes, storage>>
                ELSE /\ notes' = Append(notes, note)
                     /\ storage' = saveStateToStorage(storage, notes', tree,
                                               lastSyncedBlock, writes)
                     /\ calls' = [calls EXCEPT ![s] = Finish(d)]
        ELSE /\ calls' = [calls EXCEPT ![s] =
                   Throw(d, IF result.threw
                            THEN "waitForTransaction failed"
                            ELSE "Deposit transaction failed")]
             /\ UNCHANGED <<notes, merkleTree, storage>>

\* contractService.waitForTransaction(txHash) settles
ExecuteDepositConfirm(s, outcome, writes) ==
    LET c == calls[s]
        block == currentBlock + 1
    IN  /\ c.pc = "dep_wait"
        /\ IF Mined(outcome)
           THEN /\ Len(chainLog) < MaxLeaves
                /\ currentBlock' = block
                /\ chainLog' = Append(chainLog,
                                      [commitment |-> c.commitment[1].commitment,
                                       blockNumber |-> block])
           ELSE UNCHANGED <<currentBlock, chainLog>>
        /\ DepositReceipt(s, c, outcome, waitForTransaction(outcome, block),
                          writes)
        /\ UNCHANGED <<lastSyncedBlock, isInitialized, keys, contractService,
                       nullifierUsed, keyGens, everSpent, queryResult>>

\* the chain includes the deposit in a block while the wallet still waits
\* for the receipt
DepositMined(s) ==
    LET c == calls[s]
        block == currentBlock + 1
    IN  /\ c.pc = "dep_wait"
        /\ Len(chainLog) < MaxLeaves
        /\ currentBlock' = block
        /\ chainLog' = Append(chainLog,
                              [commitment |-> c.commitment[1].commitment,
                               blockNumber |-> block])
        /\ calls' = [calls EXCEPT ![s] = [c EXCEPT !.pc = "dep_mined",
                                                   !.blockNumber = block]]
        /\ UNCHANGED <<walletVars, storage, nullifierUsed, keyGens,
                       everSpent, queryResult>>

\* waitForTransaction settles with the receipt of the deposit mined before
ExecuteDepositReceipt(s, writes) ==
    LET c == calls[s]
    IN  /\ c.pc = "dep_mined"
        /\ DepositReceipt(s, c, "success",
                          waitForTransaction("success", c.blockNumber), writes)
        /\ UNCHANGED <<lastSyncedBlock, isInitialized, keys, contractService,
                       chainVars, keyGens, everSpent, queryResult>>

----------------------------------------------------------------------------
(* executeTransaction *)

OutputLists == UNION {[1..n -> Amounts] : n \in 0..MaxOutputs}

NullifiersOf(ns, idx) == [k \in 1..Len(idx) |-> ns[idx[k]].nullifier]

FinalOutputsWithoutChange(outputs, change) == outputs

\* finalOutputs: the outputs asked for and, when change is left, one more
FinalOutputs(outputs, change) ==
    IF change > 0 THEN Append(outputs, change) ELSE outputs

\* the call, up to the point where requestTransactionProof is awaited
ExecuteTransactionStart(s, token, outputs) ==
    /\ LET c == [NewCall("executeTransaction") EXCEPT
                    !.token = token, !.outputs = outputs]
           totalOutput == SumSeq(outputs)
           sel == selectNotesForAmount(notes, token, totalOutput)
           totalInput == sel.total
           change == totalInput - totalOutput
           finalOutputs == FinalOutputs(outputs, change)
       IN  calls' = [calls EXCEPT ![s] =
              IF ~contractService
              THEN Throw(c, "Contract service not initialized")
              ELSE IF totalInput < totalOutput
              THEN Throw(c, "Insufficient balance")
              ELSE IF change > 0 /\ keys = Null
              THEN Throw(c, "Wallet keys not found")
              ELSE [c EXCEPT !.inputs = sel.idx,
                             !.finalOutputs = finalOutputs,
                             !.changeRecipient =
                                 IF change > 0
                                 THEN Some(exportPublicKeys(keys[1]))
                                 ELSE Null,
                             !.proverCalled = TRUE, !.pc = "tx_prove"]]
    /\ UNCHANGED <<walletVars, storage, chainVars, keyGens, everSpent,
                   queryResult>>

ExecuteTransactionCall(s, token, outputs) ==
    /\ CanStart(s)
    /\ ExecuteTransactionStart(s, token, outputs)

\* executeTransaction is called while another call of the wallet is in
\* flight: the method tests no flag and takes no lock
ExecuteTransactionBeside(s, token, outputs) ==
    /\ calls[s].pc = "idle"
    /\ ExecuteTransactionStart(s, token, outputs)

\* how the fetch to the prover can end: a proof, a response with
\* success = false, a status that is not ok, or no response at all
ProverOutcomes == {"proof", "failure", "http_error", "unreachable"}

\* JSON.stringify(request) throws a TypeError on a bigint: every input note
\* and every output note of the request carries its amount as a bigint
JSONstringifyThrows(inputNotes, outputNotes) ==
    Len(inputNotes) + Len(outputNotes) > 0

\* what became of the request: the body could not be built, or the fetch
\* ended with outcome
RequestOutcome(inputNotes, outputNotes, outcome) ==
    IF JSONstringifyThrows(inputNotes, outputNotes) THEN "unserializable"
    ELSE outcome

\* requestTransactionProof answering every failure with the mock proof
requestTransactionProofAlwaysMock(inputNotes, outputNotes, outcome) ==
    IF RequestOutcome(inputNotes, outputNotes, outcome) = "proof"
    THEN [success |-> TRUE, proof |-> "real"]
    ELSE [success |-> TRUE, proof |-> "mock"]

\* requestTransactionProof: the ProofResponse for each way the request can
\* end; whatever is thrown inside the try block is answered by
\* generateMockProof(), whose success is true
requestTransactionProof(inputNotes, outputNotes, outcome) ==
    LET o == RequestOutcome(inputNotes, outputNotes, outcome)
    IN  CASE o = "proof" -> [success |-> TRUE, proof |-> "real"]
          [] o = "failure" -> [success |-> FALSE, proof |-> "none"]
          [] o = "http_error" -> [success |-> FALSE, proof |-> "none"]
          [] o = "unreachable" -> [success |-> TRUE, proof |-> "mock"]
          [] o = "unserializable" -> [success |-> TRUE, proof |-> "mock"]

\* the prover request settles; on success transact() is called
ExecuteTransactionProof(s, outcome) ==
    LET c == calls[s]
        proofResponse == requestTransactionProof(c.inputs, c.finalOutputs,
                                                 outcome)
        d == [c EXCEPT !.proverOutcome =
                 RequestOutcome(c.inputs, c.finalOutputs, outcome)]
    IN  /\ c.pc = "tx_prove"
        /\ calls' = [calls EXCEPT ![s] =
              IF ~proofResponse.success
              THEN Throw(d, "Failed to generate transaction proof")
              ELSE [d EXCEPT !.proof = proofResponse.proof,
                             !.chainCalled = TRUE, !.pc = "tx_submit"]]
        /\ UNCHANGED <<walletVars, storage, chainVars, keyGens, everSpent,
                       queryResult>>

\* contractService.transact() settles
ExecuteTransactionSubmit(s, ok) ==
    LET c == calls[s]
    IN  /\ c.pc = "tx_submit"
        /\ calls' = [calls EXCEPT ![s] =
              IF ok THEN [c EXCEPT !.submitted = TRUE, !.pc = "tx_wait"]
              ELSE Throw(c, "transact failed")]
        /\ UNCHANGED <<walletVars, storage, chainVars, keyGens, everSpent,
                       queryResult>>

\* TransactionReceipt that adds the notes of the outputs to the ledger itself
TransactionReceiptAddsOutputs(s, c, outcome, result, writes) ==
    LET d == [c EXCEPT !.txOutcome = outcome]
        ns == markNotesSpent(notes, NullifiersOf(notes, c.inputs))
        added == [k \in 1..Len(c.finalOutputs) |->
                    [commitment |-> Commit(c.finalOutputs[k], 0),
                     amount |-> c.finalOutputs[k], blinding |-> 0,
                     token |-> c.token,
                     leafIndex |-> merkleTree.nextLeafIndex + k - 1,
                     nullifier |-> ForeignNullifier,
                     spent |-> FALSE, blockNumber |-> result.blockNumber]]
    IN  IF ~result.threw /\ result.success
        THEN /\ notes' = ns \o added
             /\ storage' = saveStateToStorage(storage, notes', merkleTree,
                                              lastSyncedBlock, writes)
             /\ everSpent' = everSpent \cup SpentNullifiers(ns)
             /\ calls' = [calls EXCEPT ![s] = Finish(d)]
        ELSE /\ calls' = [calls EXCEPT ![s] = Throw(d, "failed")]
             /\ UNCHANGED <<notes, storage, everSpent>>

\* executeTransaction from the settled waitForTransaction on, with its result
TransactionReceipt(s, c, outcome, result, writes) ==
    LET d == [c EXCEPT !.txOutcome = outcome]
        nullifiers == NullifiersOf(notes, c.inputs)
        ns == markNotesSpent(notes, nullifiers)
    IN  IF ~result.threw /\ result.success
        THEN /\ notes' = ns
             /\ storage' = saveStateToStorage(storage, ns, merkleTree,
                                              lastSyncedBlock, writes)
             /\ everSpent' = everSpent \cup SpentNullifiers(ns)
             /\ calls' = [calls EXCEPT ![s] = Finish(d)]
        ELSE /\ calls' = [calls EXCEPT ![s] =
                   Throw(d, IF result.threw
                            THEN "waitForTransaction failed"
                            ELSE "Transaction execution failed")]
             /\ UNCHANGED <<notes, storage, everSpent>>

\* contractService.waitForTransaction(txHash) settles.  A mined transfer with
\* a prover's proof uses the input nullifiers, which the contract accepts only
\* when none is used yet, and appends one commitment per output
ExecuteTransactionConfirm(s, outcome, writes) ==
    LET c == calls[s]
        block == currentBlock + 1
        nullifiers == NullifiersOf(notes, c.inputs)
        used == {nullifiers[k] : k \in 1..Len(nullifiers)}
    IN  /\ c.pc = "tx_wait"
        /\ IF Mined(outcome)
           THEN IF c.proof = "real"
                THEN /\ used \cap nullifierUsed = {}
                     /\ currentBlock' = IF c.finalOutputs = << >>
                                        THEN currentBlock ELSE block
                     /\ nullifierUsed' = nullifierUsed \cup used
                     /\ chainLog' = AppendEvents(chainLog, c.finalOutputs,
                                                 block)
                ELSE UNCHANGED chainVars
           ELSE UNCHANGED chainVars
        /\ TransactionReceipt(s, c, outcome, waitForTransaction(outcome, block),
                              writes)
        /\ UNCHANGED <<merkleTree, lastSyncedBlock, isInitialized, keys,
                       contractService, keyGens, queryResult>>

\* the contract accepts the submitted transfer while the wallet still waits
\* for the receipt: the input nullifiers are used from then on and one
\* commitment per output is appended, all in one new block
TransactionMined(s) ==
    LET c == calls[s]
        block == currentBlock + 1
        nullifiers == NullifiersOf(notes, c.inputs)
        used == {nullifiers[k] : k \in 1..Len(nullifiers)}
    IN  /\ c.pc = "tx_wait"
        /\ used \cap nullifierUsed = {}
        /\ currentBlock' = IF c.finalOutputs = << >> THEN currentBlock
                           ELSE block
        /\ nullifierUsed' = nullifierUsed \cup used
        /\ chainLog' = AppendEvents(chainLog, c.finalOutputs, block)
        /\ calls' = [calls EXCEPT ![s] = [c EXCEPT !.pc = "tx_mined",
                                                   !.blockNumber = block]]
        /\ UNCHANGED <<walletVars, storage, keyGens, everSpent, queryResult>>

\* waitForTransaction settles with the receipt of the transfer mined before
ExecuteTransactionReceipt(s, writes) ==
    LET c == calls[s]
    IN  /\ c.pc = "tx_mined"
        /\ TransactionReceipt(s, c, "success",
                              waitForTransaction("success", c.blockNumber),
                              writes)
        /\ UNCHANGED <<merkleTree, lastSyncedBlock, isInitialized, keys,
                       contractService, chainVars, keyGens, queryResult>>

----------------------------------------------------------------------------
(* executeWithdraw (test mode: testWithdraw needs no proof, no nullifier) *)

\* the call, up to the point where contractService.testWithdraw has settled
ExecuteWithdrawCall(s, token, amount, noteSet, submitOk) ==
    /\ CanStart(s)
    /\ LET c == [NewCall("executeWithdraw") EXCEPT
                    !.token = token, !.amount = amount,
                    !.inputs = Ascending(noteSet)]
       IN  calls' = [calls EXCEPT ![s] =
              IF ~contractService
              THEN Throw(c, "Contract service not initialized")
              ELSE IF ~submitOk
              THEN Throw([c EXCEPT !.chainCalled = TRUE], "testWithdraw failed")
              ELSE [c EXCEPT !.chainCalled = TRUE, !.submitted = TRUE,
                             !.pc = "wd_wait"]]
    /\ UNCHANGED <<walletVars, storage, chainVars, keyGens, everSpent,
                   queryResult>>

ExecuteWithdrawConfirm(s, outcome, writes) ==
    LET c == calls[s]
        result == waitForTransaction(outcome, currentBlock)
        d == [c EXCEPT !.txOutcome = outcome]
        ns == markNotesSpent(notes, NullifiersOf(notes, c.inputs))
    IN  /\ c.pc = "wd_wait"
        /\ IF ~result.threw /\ result.success
           THEN /\ notes' = ns
                /\ storage' = saveStateToStorage(storage, ns, merkleTree,
                                                 lastSyncedBlock, writes)
                /\ everSpent' = everSpent \cup SpentNullifiers(ns)
                /\ calls' = [calls EXCEPT ![s] = Finish(d)]
           ELSE /\ calls' = [calls EXCEPT ![s] =
                      Throw(d, IF result.threw
                               THEN "waitForTransaction failed"
                               ELSE "Withdrawal transaction failed")]
                /\ UNCHANGED <<notes, storage, everSpent>>
        /\ UNCHANGED <<merkleTree, lastSyncedBlock, isInitialized, keys,
                       contractService, chainVars, keyGens, queryResult>>

----------------------------------------------------------------------------
(* The chain's other users *)

\* the contract has accepted a transfer that spends one of the notes, sent
\* by another client that holds the spend key: nullifierUsed(nullifier)
\* answers true from then on
OtherClientSpend ==
    /\ \E i \in 1..Len(notes) :
          /\ notes[i].nullifier \notin nullifierUsed
          /\ nullifierUsed' = nullifierUsed \cup {notes[i].nullifier}
    /\ UNCHANGED <<walletVars, storage, chainLog, currentBlock, keyGens,
                   calls, everSpent, queryResult>>

\* another user's deposit or transfer appends a commitment in a new block
OtherUserAppend ==
    /\ Len(chainLog) < MaxLeaves
    /\ currentBlock' = currentBlock + 1
    /\ chainLog' = AppendEvents(chainLog, <<0>>, currentBlock + 1)
    /\ UNCHANGED <<walletVars, storage, nullifierUsed, keyGens, calls,
                   everSpent, queryResult>>

----------------------------------------------------------------------------
(* The wallet, its storage and the chain *)

\* how many of the three setItem calls of a save succeed, and whether the
\* setItem of the keys does; a write may fail only where faulty is set
Writes(faulty) ==
    IF faulty /\ storage.faults < MaxFaults THEN 0..3 ELSE {3}
Saved(faulty) ==
    IF faulty /\ storage.faults < MaxFaults THEN BOOLEAN ELSE {TRUE}

Step(faulty) ==
    \/ Construct
    \/ clearStorage
    \/ OtherUserAppend
    \/ OtherClientSpend
    \/ \E nl \in NullifierInputs, w \in Writes(faulty) :
          MarkNotesSpent(<<nl>>, w)
    \/ \E s \in Slots :
        \/ \E a \in Signers : InitializeCall(s, a)
        \/ \E ok \in BOOLEAN : InitializeAddresses(s, ok)
        \/ \E ok \in BOOLEAN, saved \in Saved(faulty) :
              InitializeGenerate(s, ok, saved)
        \/ SyncWithChainCall(s)
        \/ SyncWithChainRetry(s)
        \/ \E ok \in BOOLEAN : SyncBlockNumber(s, ok)
        \/ \E ok \in BOOLEAN, w \in Writes(faulty) : SyncLogs(s, ok, w)
        \/ \E ok \in BOOLEAN, w \in Writes(faulty) : SyncNullifierUsed(s, ok, w)
        \/ \E t \in Tokens, a \in Amounts, ok \in BOOLEAN :
              ExecuteDepositCall(s, t, a, ok)
        \/ \E o \in WaitOutcomes, w \in Writes(faulty) :
              ExecuteDepositConfirm(s, o, w)
        \/ \E t \in QueryTokens, outs \in OutputLists :
              ExecuteTransactionCall(s, t, outs)
        \/ \E o \in ProverOutcomes : ExecuteTransactionProof(s, o)
        \/ \E ok \in BOOLEAN : ExecuteTransactionSubmit(s, ok)
        \/ \E o \in WaitOutcomes, w \in Writes(faulty) :
              ExecuteTransactionConfirm(s, o, w)
        \/ \E t \in QueryTokens, a \in Amounts, S \in SUBSET (1..Len(notes)),
              ok \in BOOLEAN : ExecuteWithdrawCall(s, t, a, S, ok)
        \/ \E o \in WaitOutcomes, w \in Writes(faulty) :
              ExecuteWithdrawConfirm(s, o, w)
        \/ Return(s)

\* the wallet with a localStorage whose writes succeed
Next == Step(FALSE)
Spec == Init /\ [][Next]_vars

\* the wallet with a localStorage whose writes may fail
NextFaults == Step(TRUE)
SpecFaults == Init /\ [][NextFaults]_vars

\* the wallet is initialized once, then only deposits that the chain confirms
\* and syncWithChain calls whose chain calls all succeed are run, while other
\* users append commitments
NextMirror ==
    \/ OtherUserAppend
    \/ \E s \in Slots :
        \/ \E a \in Signers : ~contractService /\ InitializeCall(s, a)
        \/ InitializeGenerate(s, TRUE, TRUE)
        \/ SyncWithChainCall(s)
        \/ SyncBlockNumber(s, TRUE)
        \/ SyncLogs(s, TRUE, 3)
        \/ SyncNullifierUsed(s, TRUE, 3)
        \/ \E t \in Tokens, a \in Amounts : ExecuteDepositCall(s, t, a, TRUE)
        \/ ExecuteDepositConfirm(s, "success", 3)
        \/ Return(s)
SpecMirror == Init /\ [][NextMirror]_vars

\* the wallet is initialized once; deposits are submitted, mined and their
\* receipts taken, and syncWithChain may run at any moment in between
NextConcurrent ==
    \/ OtherUserAppend
    \/ \E a \in Signers : ~contractService /\ InitializeCall(1, a)
    \/ InitializeGenerate(1, TRUE, TRUE)
    \/ \E t \in Tokens, a \in Amounts : ExecuteDepositCall(1, t, a, TRUE)
    \/ DepositMined(1)
    \/ ExecuteDepositReceipt(1, 3)
    \/ SyncWithChainBeside(SyncSlot)
    \/ \E ok \in BOOLEAN : SyncBlockNumber(SyncSlot, ok)
    \/ \E ok \in BOOLEAN : SyncLogs(SyncSlot, ok, 3)
    \/ \E ok \in BOOLEAN : SyncNullifierUsed(SyncSlot, ok, 3)
    \/ \E s \in AllSlots : Return(s)
SpecConcurrent == Init /\ [][NextConcurrent]_vars

\* the amounts of the end-to-end run: one deposit, split by one transfer
E2EDeposit == 100
E2EOutputs == {<<60, 40>>, <<40, 60>>}

\* the wallet is initialized once and makes one deposit, which the chain
\* confirms; transfers of the two outputs are requested, and the contract
\* accepts what is submitted; syncWithChain is called again and again
NextEndToEnd ==
    \/ \E a \in Signers : ~contractService /\ InitializeCall(1, a)
    \/ InitializeGenerate(1, TRUE, TRUE)
    \/ \E t \in Tokens :
          notes = << >> /\ ExecuteDepositCall(1, t, E2EDeposit, TRUE)
    \/ ExecuteDepositConfirm(1, "success", 3)
    \/ \E t \in QueryTokens, outputs \in E2EOutputs :
          ExecuteTransactionCall(1, t, outputs)
    \/ \E outcome \in ProverOutcomes : ExecuteTransactionProof(1, outcome)
    \/ \E ok \in BOOLEAN : ExecuteTransactionSubmit(1, ok)
    \/ TransactionMined(1)
    \/ ExecuteTransactionReceipt(1, 3)
    \/ SyncWithChainCall(1)
    \/ \E ok \in BOOLEAN : SyncBlockNumber(1, ok)
    \/ \E ok \in BOOLEAN : SyncLogs(1, ok, 3)
    \/ \E ok \in BOOLEAN : SyncNullifierUsed(1, ok, 3)
    \/ Return(1)

\* a wallet that can take a step does not stop for ever
SpecEndToEnd == Init /\ [][NextEndToEnd]_vars /\ WF_vars(NextEndToEnd)

----------------------------------------------------------------------------
(* The wallet on a chain whose head runs ahead of the block range *)

MaxBlock == 6         \* blocks the chain mines at most
MaxChainEvents == 3   \* commitment events on the chain at most

\* the chain mines a block, with or without a commitment of another user
MineBlock(withEvent) ==
    /\ currentBlock < MaxBlock
    /\ withEvent => Len(chainLog) < MaxChainEvents
    /\ currentBlock' = currentBlock + 1
    /\ chainLog' = IF withEvent
                   THEN AppendEvents(chainLog, <<0>>, currentBlock + 1)
                   ELSE chainLog
    /\ UNCHANGED <<walletVars, storage, nullifierUsed, keyGens, calls,
                   everSpent, queryResult>>

\* the wallet is initialized once, then deposits that the chain confirms
\* and syncWithChain calls whose chain calls all succeed are run
NextRange ==
    \/ \E withEvent \in BOOLEAN : MineBlock(withEvent)
    \/ \E a \in Signers : ~contractService /\ InitializeCall(1, a)
    \/ InitializeGenerate(1, TRUE, TRUE)
    \/ \E t \in Tokens, a \in Amounts : ExecuteDepositCall(1, t, a, TRUE)
    \/ ExecuteDepositConfirm(1, "success", 3)
    \/ SyncWithChainCall(1)
    \/ SyncBlockNumber(1, TRUE)
    \/ SyncLogs(1, TRUE, 3)
    \/ SyncNullifierUsed(1, TRUE, 3)
    \/ Return(1)

SpecRange == Init /\ [][NextRange]_vars

----------------------------------------------------------------------------
(* getAccountUpdatedEvents applied to drawn chains and start blocks *)

\* a chain of some blocks, other users' commitments in some of them
InitEvents ==
    /\ currentBlock \in 0..MaxBlock
    /\ \E B \in SUBSET (1..currentBlock) :
          /\ Cardinality(B) <= MaxChainEvents
          /\ chainLog = [i \in 1..Cardinality(B) |->
                            [commitment |-> Commit(0, 2 * i),
                             blockNumber |-> Ascending(B)[i]]]
    /\ notes = << >>
    /\ merkleTree = NewMerkleTree
    /\ lastSyncedBlock = 0
    /\ isInitialized = FALSE
    /\ keys = Null
    /\ contractService = TRUE
    /\ storage = EmptyStorage
    /\ nullifierUsed = {}
    /\ keyGens = 0
    /\ calls = [s \in AllSlots |-> IdleCall]
    /\ everSpent = {}
    /\ queryResult = Null

\* a caller applies getAccountUpdatedEvents(fromBlock), toBlock 'latest'
GetAccountUpdatedEvents(fromBlock) ==
    /\ queryResult' =
          Some([op |-> "getAccountUpdatedEvents", fromBlock |-> fromBlock,
                currentBlock |-> currentBlock,
                actualFromBlock |-> ActualFromBlock(fromBlock, currentBlock),
                events |-> getAccountUpdatedEvents(chainLog, fromBlock,
                                                   currentBlock)])
    /\ UNCHANGED <<walletVars, storage, chainVars, keyGens, calls, everSpent>>

NextEvents == \E fromBlock \in 0..MaxBlock : GetAccountUpdatedEvents(fromBlock)

SpecEvents == InitEvents /\ [][NextEvents]_vars

----------------------------------------------------------------------------
(* Two executeTransaction calls that overlap *)

\* the wallet is initialized once, deposits are confirmed, and transfers
\* are called whether or not another transfer is in flight
NextOverlap ==
    \/ \E a \in Signers : ~contractService /\ InitializeCall(1, a)
    \/ InitializeGenerate(1, TRUE, TRUE)
    \/ \E t \in Tokens, a \in Amounts : ExecuteDepositCall(1, t, a, TRUE)
    \/ ExecuteDepositConfirm(1, "success", 3)
    \/ \E s \in AllSlots :
        \/ \E t \in QueryTokens, outputs \in OutputLists :
              ExecuteTransactionBeside(s, t, outputs)
        \/ \E outcome \in ProverOutcomes : ExecuteTransactionProof(s, outcome)
        \/ \E ok \in BOOLEAN : ExecuteTransactionSubmit(s, ok)
        \/ \E outcome \in WaitOutcomes : ExecuteTransactionConfirm(s, outcome, 3)
        \/ Return(s)

SpecOverlap == Init /\ [][NextOverlap]_vars

----------------------------------------------------------------------------
(* The wallet initialized with one account after another *)

Accounts == {"0xa1", "0xb2"}     \* accounts the connected wallet can expose

\* instances are constructed and initialized with either account, deposits
\* are confirmed, other users append commitments
NextAccounts ==
    \/ Construct
    \/ OtherUserAppend
    \/ \E a \in Accounts : InitializeCall(1, a)
    \/ \E ok \in BOOLEAN : InitializeAddresses(1, ok)
    \/ \E ok \in BOOLEAN : InitializeGenerate(1, ok, TRUE)
    \/ \E ok \in BOOLEAN : SyncBlockNumber(1, ok)
    \/ \E ok \in BOOLEAN : SyncLogs(1, ok, 3)
    \/ \E ok \in BOOLEAN : SyncNullifierUsed(1, ok, 3)
    \/ \E t \in Tokens, a \in Amounts : ExecuteDepositCall(1, t, a, TRUE)
    \/ ExecuteDepositConfirm(1, "success", 3)
    \/ Return(1)

SpecAccounts == Init /\ [][NextAccounts]_vars

----------------------------------------------------------------------------
(* The note queries applied to drawn note lists *)

SelTokens == {"0xab", "0xAB", "0xcd"}
SelKeys == generateKeysFromWallet("0xa1", 1)

\* the ledger after deposits of the drawn amounts and tokens, the i-th mined
\* in block i, some of them marked spent since
DrawnNote(i, p) ==
    LET cm == Commit(p[1], 2 * i - 1)
    IN  [commitment |-> cm, amount |-> p[1], blinding |-> 2 * i - 1,
         token |-> p[2], leafIndex |-> i - 1,
         nullifier |-> computeNullifier(bytesToHex(SelKeys.spendPrivateKey),
                                        i - 1, cm),
         spent |-> p[3], blockNumber |-> i]

DrawnNotes(f) == [i \in 1..Len(f) |-> DrawnNote(i, f[i])]

DrawnLists ==
    UNION {[1..n -> Amounts \X SelTokens \X BOOLEAN] : n \in 0..MaxSelNotes}

InitSelect ==
    /\ \E f \in DrawnLists :
        /\ notes = DrawnNotes(f)
        /\ merkleTree = InsertAll(NewMerkleTree,
                            [i \in 1..Len(f) |-> notes[i].commitment])
        /\ chainLog = [i \in 1..Len(f) |->
                          [commitment |-> notes[i].commitment,
                           blockNumber |-> i]]
        /\ currentBlock = Len(f)
        /\ everSpent = SpentNullifiers(notes)
        /\ storage = saveStateToStorage(
                        saveKeysToStorage(EmptyStorage, SelKeys, TRUE),
                        notes, merkleTree, 0, 3)
    /\ lastSyncedBlock = 0
    /\ isInitialized = TRUE
    /\ keys = Some(SelKeys)
    /\ contractService = TRUE
    /\ nullifierUsed = {}
    /\ keyGens = 1
    /\ calls = [s \in AllSlots |-> IdleCall]
    /\ queryResult = Null

\* a caller applies selectNotesForAmount(token, target)
SelectNotesForAmount(token, target) ==
    /\ queryResult' =
          LET sel == selectNotesForAmount(notes, token, target)
          IN  Some([token |-> token, target |-> target,
                    selected |-> sel.idx, total |-> sel.total])
    /\ UNCHANGED <<walletVars, storage, chainVars, keyGens, calls, everSpent>>

NextSelect ==
    \E t \in SelTokens, target \in 0..MaxTarget : SelectNotesForAmount(t, target)

SpecSelect == InitSelect /\ [][NextSelect]_vars

\* nullifier lists a caller may pass to markNotesSpent
MaxNullifiers == 2
NullifierLists == UNION {[1..n -> NullifierInputs] : n \in 0..MaxNullifiers}

\* a caller applies markNotesSpent(nullifiers); the list and the ledger it
\* was applied to are kept for the comparison
ApplyMarkNotesSpent(nullifiers) ==
    /\ notes' = markNotesSpent(notes, nullifiers)
    /\ storage' = saveStateToStorage(storage, notes', merkleTree,
                                     lastSyncedBlock, 3)
    /\ everSpent' = everSpent \cup SpentNullifiers(notes')
    /\ queryResult' = Some([nullifiers |-> nullifiers, before |-> notes])
    /\ UNCHANGED <<merkleTree, lastSyncedBlock, isInitialized, keys,
                   contractService, chainVars, keyGens, calls>>

NextMark == \E nullifiers \in NullifierLists : ApplyMarkNotesSpent(nullifiers)

\* the drawn ledgers of one token and one amount: markNotesSpent reads the
\* nullifiers and the spent flags only
InitMark ==
    /\ InitSelect
    /\ \A i \in 1..Len(notes) : notes[i].token = "0xab" /\ notes[i].amount = 1

SpecMark == InitMark /\ [][NextMark]_vars

----------------------------------------------------------------------------
(* The key functions applied to drawn keys *)

MaxKeyBytes == 2
ByteValues == {1, 171}
KeyBytes == UNION {[1..n -> ByteValues] : n \in 0..MaxKeyBytes}

\* the WalletKeys values drawn: any bytes in any of the four key fields
DrawnWalletKeys ==
    [address : Signers, viewPrivateKey : KeyBytes, viewPublicKey : KeyBytes,
     spendPrivateKey : KeyBytes, spendPublicKey : KeyBytes]

InitKeys ==
    /\ keys \in {Some(k) : k \in DrawnWalletKeys}
    /\ notes = << >>
    /\ merkleTree = NewMerkleTree
    /\ lastSyncedBlock = 0
    /\ isInitialized = FALSE
    /\ contractService = FALSE
    /\ storage = EmptyStorage
    /\ chainLog = << >>
    /\ nullifierUsed = {}
    /\ currentBlock = 0
    /\ keyGens = 0
    /\ calls = [s \in AllSlots |-> IdleCall]
    /\ everSpent = {}
    /\ queryResult = Null

\* a caller applies serializeKeys and then deserializeKeys to the result
SerializeDeserializeKeys ==
    /\ queryResult' =
          LET serialized == serializeKeys(keys[1])
          IN  Some([op |-> "deserializeKeys", serialized |-> serialized,
                    result |-> deserializeKeys(serialized)])
    /\ UNCHANGED <<walletVars, storage, chainVars, keyGens, calls, everSpent>>

\* a caller applies exportPublicKeys
ExportPublicKeys ==
    /\ queryResult' = Some([op |-> "exportPublicKeys",
                            result |-> exportPublicKeys(keys[1])])
    /\ UNCHANGED <<walletVars, storage, chainVars, keyGens, calls, everSpent>>

NextKeys == SerializeDeserializeKeys \/ ExportPublicKeys

SpecKeys == InitKeys /\ [][NextKeys]_vars

----------------------------------------------------------------------------
(* The commitment functions applied to drawn amounts and blindings *)

CURVE_ORDER == 101    \* the order n of secp256k1, scaled
MaxBlinding == 4      \* blinding scalars a sampling can return

Blindings == 1..MaxBlinding
TotalIns == 0..(MaxAmount + 1)
OutLists == UNION {[1..n -> Amounts] : n \in 1..MaxOutputs}

RECURSIVE PointSum(_)
\* the sum of curve points H.a + G.b, each written as the pair <<a, b>>
PointSum(points) ==
    IF points = << >> THEN <<0, 0>>
    ELSE LET rest == PointSum(Tail(points))
         IN  <<(points[1][1] + rest[1]) % CURVE_ORDER,
               (points[1][2] + rest[2]) % CURVE_ORDER>>

verifyCommitment(commitment, amount, blinding) ==
    Commit(amount, blinding) = commitment

\* one input for totalIn and one output per entry of outs; blindings holds
\* the sampled scalars, the input's first, and the last output's blinding
\* is the one that makes the blindings of the two sides sum to the same
createBalancedCommitments(totalIn, outs, blindings) ==
    LET n == Len(outs)
        sampled == SumSeq(Tail(blindings)) % CURVE_ORDER
        last == (blindings[1] + CURVE_ORDER - sampled) % CURVE_ORDER
    IN  [inputs |-> <<createCommitmentWithBlinding(totalIn, blindings[1])>>,
         outputs |-> [i \in 1..n |->
             createCommitmentWithBlinding(outs[i],
                 IF i < n THEN blindings[i + 1] ELSE last)]]

verifyBalance(inputCommitments, outputCommitments) ==
    PointSum(inputCommitments) = PointSum(outputCommitments)

PrivacyWallet_verifyCommitmentSwapped(commitment, amount, blinding) ==
    verifyCommitment(commitment, blinding, amount)

PrivacyWallet_verifyCommitment(commitment, amount, blinding) ==
    verifyCommitment(commitment, amount, blinding)

CommitmentsOfAmounts(cs) == [i \in 1..Len(cs) |-> Commit(cs[i].amount, 0)]

\* cs.map((c) => c.commitment)
CommitmentsOf(cs) == [i \in 1..Len(cs) |-> cs[i].commitment]

BlindingsOf(call) ==
    {call.inputs[i].blinding : i \in 1..Len(call.inputs)}
        \cup {call.outputs[i].blinding : i \in 1..Len(call.outputs)}

InitCommit ==
    /\ notes = << >>
    /\ merkleTree = NewMerkleTree
    /\ lastSyncedBlock = 0
    /\ isInitialized = FALSE
    /\ keys = Null
    /\ contractService = FALSE
    /\ storage = EmptyStorage
    /\ chainLog = << >>
    /\ nullifierUsed = {}
    /\ currentBlock = 0
    /\ keyGens = 0
    /\ calls = [s \in AllSlots |-> IdleCall]
    /\ everSpent = {}
    /\ queryResult = Null

\* a caller creates a commitment and verifies what createCommitment returned
CreateAndVerifyCommitment(amount, blinding) ==
    /\ queryResult' =
          LET made == createCommitmentWithBlinding(amount, blinding)
          IN  Some([op |-> "createCommitment", asked |-> amount,
                    made |-> made,
                    verified |-> PrivacyWallet_verifyCommitment(
                        made.commitment, made.amount, made.blinding)])
    /\ UNCHANGED <<walletVars, storage, chainVars, keyGens, calls, everSpent>>

\* the balanced call the state remembers, Null when there is none
LastBalanced ==
    IF queryResult # Null /\ queryResult[1].op = "createBalancedCommitments"
    THEN Some(queryResult[1].call) ELSE Null

\* a caller builds balanced commitments and verifies the balance of the
\* call, and of this call's inputs against the outputs of the call before;
\* a sampled blinding is one no commitment has used
CreateAndVerifyBalance(totalIn, outs, blindings) ==
    /\ \A i, j \in 1..Len(blindings) : i # j => blindings[i] # blindings[j]
    /\ LastBalanced # Null =>
          \A i \in 1..Len(blindings) :
              blindings[i] \notin BlindingsOf(LastBalanced[1])
    /\ queryResult' =
          LET call == createBalancedCommitments(totalIn, outs, blindings)
          IN  Some([op |-> "createBalancedCommitments",
                    totalIn |-> totalIn, outs |-> outs, call |-> call,
                    balanced |-> verifyBalance(CommitmentsOf(call.inputs),
                                               CommitmentsOf(call.outputs)),
                    before |-> LastBalanced,
                    crossBalanced |->
                        IF LastBalanced = Null THEN FALSE
                        ELSE verifyBalance(CommitmentsOf(call.inputs),
                                 CommitmentsOf(LastBalanced[1].outputs))])
    /\ UNCHANGED <<walletVars, storage, chainVars, keyGens, calls, everSpent>>

NextCommit ==
    \/ \E amount \in 0..MaxAmount, blinding \in Blindings :
           CreateAndVerifyCommitment(amount, blinding)
    \/ \E totalIn \in TotalIns, outs \in OutLists :
           \E blindings \in [1..Len(outs) -> Blindings] :
               CreateAndVerifyBalance(totalIn, outs, blindings)

SpecCommit == InitCommit /\ [][NextCommit]_vars

----------------------------------------------------------------------------
(* Stealth addresses applied to drawn keys *)

VIEW_TAGS == 4        \* the values of the one-byte view tag, 256 scaled
MaxScalar == 4        \* private scalars drawn, beside the largest one

Scalars == (1..MaxScalar) \cup {CURVE_ORDER - 1}

\* a private key is the byte string of its scalar, a point is the marker
\* byte followed by its scalar multiple of G (getPublicKey)
ScalarMul(privateKey, point) ==
    <<2, (privateKey[1] * point[2]) % CURVE_ORDER>>

PointAdd(p, q) == <<2, (p[2] + q[2]) % CURVE_ORDER>>

\* the hash of a shared secret: distinct secrets, distinct hashes
HashOfSecret(point) == <<(3 * point[2] + 7) % CURVE_ORDER>>

\* the address derived from a stealth public key
DerivedAddress(point) == <<(5 * point[2] + 3) % CURVE_ORDER>>

ViewTagOf(hash) == hash[1] % VIEW_TAGS

StealthPublicKey(spendPub, sharedSecret) ==
    PointAdd(spendPub, getPublicKey(HashOfSecret(sharedSecret)))

\* ephemeralPrivateKey is the key the call samples
generateStealthAddress(viewPub, spendPub, ephemeralPrivateKey) ==
    LET sharedSecret == ScalarMul(ephemeralPrivateKey, hexToBytes(viewPub))
    IN  [address |->
             DerivedAddress(StealthPublicKey(hexToBytes(spendPub),
                                             sharedSecret)),
         ephmeralPublicKey |-> bytesToHex(getPublicKey(ephemeralPrivateKey)),
         viewTag |-> ViewTagOf(HashOfSecret(sharedSecret))]

checkOwnership(stealthAddress, viewPriv, spendPub) ==
    LET sharedSecret ==
            ScalarMul(hexToBytes(viewPriv),
                      hexToBytes(stealthAddress.ephmeralPublicKey))
    IN  IF ViewTagOf(HashOfSecret(sharedSecret)) # stealthAddress.viewTag
        THEN FALSE
        ELSE DerivedAddress(StealthPublicKey(hexToBytes(spendPub),
                                             sharedSecret))
                 = stealthAddress.address

generateReceiveAddress(k, ephemeralPrivateKey) ==
    IF k = Null THEN Null
    ELSE Some(generateStealthAddress(exportPublicKeys(k[1]).viewPublicKey,
                                     exportPublicKeys(k[1]).spendPublicKey,
                                     ephemeralPrivateKey))

checkStealthOwnershipWithSpendKey(k, stealthAddress) ==
    IF k = Null THEN FALSE
    ELSE checkOwnership(stealthAddress, bytesToHex(k[1].spendPrivateKey),
                        exportPublicKeys(k[1]).spendPublicKey)

checkStealthOwnership(k, stealthAddress) ==
    IF k = Null THEN FALSE
    ELSE checkOwnership(stealthAddress, bytesToHex(k[1].viewPrivateKey),
                        exportPublicKeys(k[1]).spendPublicKey)

\* the recipient's keys: any two private scalars and their public keys
InitStealth ==
    /\ keys \in {Some([address |-> "0xa1",
                       viewPrivateKey |-> <<v>>,
                       viewPublicKey |-> getPublicKey(<<v>>),
                       spendPrivateKey |-> <<s>>,
                       spendPublicKey |-> getPublicKey(<<s>>)]) :
                     v \in Scalars, s \in Scalars}
    /\ notes = << >>
    /\ merkleTree = NewMerkleTree
    /\ lastSyncedBlock = 0
    /\ isInitialized = FALSE
    /\ contractService = FALSE
    /\ storage = EmptyStorage
    /\ chainLog = << >>
    /\ nullifierUsed = {}
    /\ currentBlock = 0
    /\ keyGens = 0
    /\ calls = [s \in AllSlots |-> IdleCall]
    /\ everSpent = {}
    /\ queryResult = Null

\* a sender generates an address for the recipient; the recipient checks
\* it, a holder of another view key checks it, and the recipient checks it
\* under every view tag
GenerateAndCheckOwnership(ephemeralPrivateKey, wrongViewPriv) ==
    /\ queryResult' =
          LET stealthAddr == generateReceiveAddress(keys,
                                                    ephemeralPrivateKey)[1]
              spendPub == bytesToHex(keys[1].spendPublicKey)
          IN  Some([op |-> "checkOwnership",
                    stealthAddr |-> stealthAddr,
                    isMine |-> checkStealthOwnership(keys, stealthAddr),
                    wrongViewPriv |-> wrongViewPriv,
                    isNotMine |-> checkOwnership(stealthAddr,
                                      bytesToHex(wrongViewPriv), spendPub),
                    wrongTagSame |->
                        ViewTagOf(HashOfSecret(ScalarMul(wrongViewPriv,
                            hexToBytes(stealthAddr.ephmeralPublicKey))))
                            = stealthAddr.viewTag,
                    tagged |-> [t \in 0..(VIEW_TAGS - 1) |->
                        checkStealthOwnership(keys,
                            [stealthAddr EXCEPT !.viewTag = t])]])
    /\ UNCHANGED <<walletVars, storage, chainVars, keyGens, calls, everSpent>>

NextStealth ==
    \E e \in Scalars, w \in Scalars :
        GenerateAndCheckOwnership(<<e>>, <<w>>)

SpecStealth == InitStealth /\ [][NextStealth]_vars

----------------------------------------------------------------------------
(* The Merkle accumulator fed drawn leaves *)

MaxTreeLeaves == 4    \* leaves inserted at most, of the 2^TREE_DEPTH places

DrawnLeaves == {Commit(a, b) : a \in Amounts, b \in 1..2}

\* for every level the sibling of the tracked node and the bit telling
\* whether the tracked node is the right child
generateProof(tree, leafIndex) ==
    [leaf |-> tree.leaves[leafIndex + 1],
     pathElements |-> [l \in 1..TREE_DEPTH |->
         LET index == leafIndex \div (2 ^ (l - 1))
         IN  NodeAt(tree.leaves, l - 1,
                    IF index % 2 = 0 THEN index + 1 ELSE index - 1)],
     pathIndices |-> [l \in 1..TREE_DEPTH |->
         (leafIndex \div (2 ^ (l - 1))) % 2]]

RECURSIVE RootFromPath(_, _, _)
\* the root recomputed from a node, hashing it left or right of each
\* sibling as the path bits say
RootFromPath(node, pathElements, pathIndices) ==
    IF pathElements = << >> THEN node
    ELSE RootFromPath(IF pathIndices[1] = 0
                      THEN HashPair(node, pathElements[1])
                      ELSE HashPair(pathElements[1], node),
                      Tail(pathElements), Tail(pathIndices))

getMerkleRoot == merkleTree.root

generateMerkleProofOfFirst(leafIndex) == generateProof(merkleTree, 0)

generateMerkleProof(leafIndex) == generateProof(merkleTree, leafIndex)

InitTree ==
    /\ keys = Null
    /\ notes = << >>
    /\ merkleTree = NewMerkleTree
    /\ lastSyncedBlock = 0
    /\ isInitialized = FALSE
    /\ contractService = FALSE
    /\ storage = EmptyStorage
    /\ chainLog = << >>
    /\ nullifierUsed = {}
    /\ currentBlock = 0
    /\ keyGens = 0
    /\ calls = [s \in AllSlots |-> IdleCall]
    /\ everSpent = {}
    /\ queryResult = Null

\* one more leaf is inserted
InsertLeaf(commitment) ==
    /\ merkleTree.nextLeafIndex < MaxTreeLeaves
    /\ merkleTree' = insertLeaf(merkleTree, commitment)
    /\ queryResult' = Null
    /\ UNCHANGED <<notes, lastSyncedBlock, isInitialized, keys,
                   contractService, storage, chainVars, keyGens, calls,
                   everSpent>>

\* a caller asks for the proof of an inserted leaf and for the root
GenerateMerkleProof(leafIndex) ==
    /\ leafIndex < merkleTree.nextLeafIndex
    /\ queryResult' = Some([op |-> "generateMerkleProof",
                            leafIndex |-> leafIndex,
                            proof |-> generateMerkleProof(leafIndex),
                            root |-> getMerkleRoot])
    /\ UNCHANGED <<walletVars, storage, chainVars, keyGens, calls, everSpent>>

NextTree ==
    \/ \E commitment \in DrawnLeaves : InsertLeaf(commitment)
    \/ \E leafIndex \in 0..(MaxTreeLeaves - 1) :
           GenerateMerkleProof(leafIndex)

SpecTree == InitTree /\ [][NextTree]_vars

----------------------------------------------------------------------------
(* The balance queries applied to drawn note lists *)

\* a caller reads getShieldedBalance and getBalanceByToken, looks the token
\* up in the Map, and asks getNotesForToken and selectNotesForAmount for it
\* with a target no note list of the token reaches
GetBalances(token) ==
    /\ queryResult' =
          LET balances == getBalanceByToken(notes)
              shielded == getShieldedBalance(notes)
          IN  Some([op |-> "getBalanceByToken", token |-> token,
                    shielded |-> shielded, balances |-> balances,
                    balance |-> BalanceOfToken(balances, token),
                    notesForToken |-> getNotesForToken(notes, token),
                    reach |-> selectNotesForAmount(notes, token,
                                                   shielded + 1).total])
    /\ UNCHANGED <<walletVars, storage, chainVars, keyGens, calls, everSpent>>

NextBalance == \E t \in SelTokens : GetBalances(t)

SpecBalance == InitSelect /\ [][NextBalance]_vars

----------------------------------------------------------------------------
(* Properties *)

RECURSIVE TokenBalance(_, _)
\* the sum of the amounts of the unspent notes of a token, whatever the
\* letter case the token address is written in
TokenBalance(ns, token) ==
    IF ns = << >> THEN 0
    ELSE (IF ~ns[1].spent /\ toLowerCase(ns[1].token) = toLowerCase(token)
          THEN ns[1].amount ELSE 0) + TokenBalance(Tail(ns), token)

\* C1: selectNotesForAmount(token, target) returns total >= target unless the
\* unspent notes of that token sum to less than target
C1_SelectionCoversTarget ==
    queryResult # Null =>
        LET r == queryResult[1]
        IN  r.total >= r.target \/ TokenBalance(notes, r.token) < r.target

\* a selection of two notes that reaches its target and leaves a note behind
C1_Witness ==
    /\ queryResult # Null
    /\ LET r == queryResult[1]
       IN  /\ Len(r.selected) = 2
           /\ r.total >= r.target
           /\ TokenBalance(notes, r.token) > r.total

InFlightTx == {"tx_prove", "tx_submit", "tx_wait"}

\* the state a call started from
Pre(c) == c.pre[1]

\* notes, accumulator and watermark are what they were when the call started
UnchangedSince(c) ==
    /\ notes = Pre(c).notes
    /\ merkleTree = Pre(c).merkleTree
    /\ lastSyncedBlock = Pre(c).lastSyncedBlock

Failed(c) == c.pc = "done" /\ c.result # "ok"

\* C2: a note whose spent flag has become true never has spent = false again,
\* whatever wallet operations and reloads from persistence follow
C2_SpentIsPermanent ==
    \A i \in 1..Len(notes) : notes[i].nullifier \in everSpent => notes[i].spent

\* C3: with the mutating operations serialized, a note that has been marked
\* spent is never selected as an input note by a later executeTransaction
C3_SpentNeverSelected ==
    \A s \in Slots :
        LET c == calls[s]
        IN  c.name = "executeTransaction" /\ c.pc \in InFlightTx =>
                \A k \in 1..Len(c.inputs) :
                    notes[c.inputs[k]].nullifier \notin everSpent

\* C4: executeTransaction marks as spent exactly the notes it selected, and
\* only once the chain confirmed the transfer as successful; when submission
\* throws or the confirmation is no success, it fails and no flag changes
C4_SpendOnlyOnConfirmation ==
    \A s \in Slots :
        LET c == calls[s]
            selected == {c.inputs[k] : k \in 1..Len(c.inputs)}
        IN  c.name = "executeTransaction" =>
              IF c.pc = "done" /\ c.result = "ok"
              THEN /\ c.submitted
                   /\ c.txOutcome = "success"
                   /\ Len(notes) = Len(Pre(c).notes)
                   /\ \A i \in 1..Len(notes) :
                        /\ i \in selected => ~Pre(c).notes[i].spent
                        /\ notes[i] = [Pre(c).notes[i] EXCEPT
                              !.spent = Pre(c).notes[i].spent \/ i \in selected]
              ELSE notes = Pre(c).notes

\* a confirmed transfer that spent its one input and left another note unspent
C4_Witness ==
    \E s \in Slots :
        LET c == calls[s]
        IN  /\ c.name = "executeTransaction"
            /\ c.pc = "done" /\ c.result = "ok"
            /\ Len(c.inputs) = 1
            /\ notes[c.inputs[1]].spent
            /\ \E i \in 1..Len(notes) : ~notes[i].spent

\* C5 as stated: executeTransaction fails with an insufficient-balance error
\* whenever the unspent total of the token is below the requested outputs
C5_AlwaysInsufficientBalance ==
    \A s \in Slots :
        LET c == calls[s]
        IN  /\ c.name = "executeTransaction"
            /\ TokenBalance(Pre(c).notes, c.token) < SumSeq(c.outputs)
            => c.pc = "done" /\ c.result = "Insufficient balance"

\* C5, amended: on a wallet whose contract service exists, executeTransaction
\* fails with an insufficient-balance error whenever the unspent total of
\* the token is below the requested outputs, contacts neither the prover nor
\* the chain, and leaves notes, accumulator and watermark unchanged
C5_InsufficientBalance ==
    \A s \in Slots :
        LET c == calls[s]
        IN  /\ c.name = "executeTransaction"
            /\ contractService
            /\ TokenBalance(Pre(c).notes, c.token) < SumSeq(c.outputs)
            => /\ c.pc = "done" /\ c.result = "Insufficient balance"
               /\ ~c.proverCalled /\ ~c.chainCalled /\ ~c.submitted
               /\ UnchangedSince(c)

\* a transfer refused for want of balance although the wallet holds a note
C5_Witness ==
    \E s \in Slots :
        LET c == calls[s]
        IN  /\ c.name = "executeTransaction"
            /\ c.result = "Insufficient balance"
            /\ TokenBalance(notes, c.token) > 0

\* C6: when the prover answers success = false, executeTransaction aborts with
\* an error, submits nothing to the chain and changes no note, nor the
\* accumulator, nor the watermark
C6_ProofFailureAborts ==
    \A s \in Slots :
        LET c == calls[s]
        IN  /\ c.name = "executeTransaction"
            /\ c.proverOutcome \in {"failure", "http_error"}
            => /\ Failed(c)
               /\ ~c.chainCalled /\ ~c.submitted
               /\ UnchangedSince(c)

\* a transfer whose proof the prover refused, on a wallet that holds a note
C6_Witness ==
    \E s \in Slots :
        LET c == calls[s]
        IN  /\ c.name = "executeTransaction"
            /\ c.proverOutcome = "failure"
            /\ Len(notes) > 0
            /\ Failed(c)

\* C7: when the request to the prover cannot be completed, executeTransaction
\* fails: nothing is submitted to the chain and no note is marked spent
C7_ProverUnreachableFails ==
    \A s \in Slots :
        LET c == calls[s]
        IN  /\ c.name = "executeTransaction"
            /\ c.proverOutcome \in {"unreachable", "unserializable"}
            => /\ Failed(c)
               /\ ~c.chainCalled /\ ~c.submitted
               /\ notes = Pre(c).notes

\* C8: a confirmed executeDeposit appends exactly one leaf, the commitment,
\* and exactly one note: unspent, with the commitment's amount and blinding,
\* the token, the confirmation's block, the leaf index the accumulator had
\* next, and the nullifier of (spendPrivateKey, that index, commitment)
C8_ConfirmedDepositAddsLeafAndNote ==
    \A s \in Slots :
        LET c == calls[s]
            cm == c.commitment[1]
            leafIndex == Pre(c).merkleTree.nextLeafIndex
        IN  /\ c.name = "executeDeposit"
            /\ c.pc = "done"
            /\ c.txOutcome = "success"
            => /\ merkleTree.leaves = Append(Pre(c).merkleTree.leaves,
                                             cm.commitment)
               /\ merkleTree.nextLeafIndex = leafIndex + 1
               /\ Len(notes) = Len(Pre(c).notes) + 1
               /\ SubSeq(notes, 1, Len(notes) - 1) = Pre(c).notes
               /\ LET n == notes[Len(notes)]
                  IN  /\ ~n.spent
                      /\ n.commitment = cm.commitment
                      /\ n.amount = cm.amount
                      /\ n.blinding = cm.blinding
                      /\ n.token = c.token
                      /\ n.blockNumber = c.blockNumber
                      /\ n.leafIndex = leafIndex
                      /\ keys # Null
                      /\ n.nullifier =
                            computeNullifier(
                                bytesToHex(keys[1].spendPrivateKey),
                                leafIndex, cm.commitment)

\* C9: when the deposit's submission throws or its confirmation is no
\* success, executeDeposit fails and notes, accumulator and watermark are
\* what they were
C9_FailedDepositChangesNothing ==
    \A s \in Slots :
        LET c == calls[s]
        IN  /\ c.name = "executeDeposit"
            /\ c.pc = "done"
            /\ c.chainCalled
            /\ c.txOutcome # "success"
            => Failed(c) /\ UnchangedSince(c)

\* a deposit the chain reverted, on a wallet that already holds a note
C9_Witness ==
    \E s \in Slots :
        LET c == calls[s]
        IN  /\ c.name = "executeDeposit"
            /\ c.txOutcome = "reverted"
            /\ Failed(c)
            /\ Len(notes) > 0

\* C10: syncWithChain never raises: whichever chain call fails, the call
\* returns normally, so that initialize completes and sets isInitialized
C10_SyncNeverRaises ==
    \A s \in Slots :
        LET c == calls[s]
        IN  /\ c.name = "syncWithChain" /\ c.pc = "done" => c.result = "ok"
            /\ c.syncError =>
                  /\ c.pc = "done" /\ c.result = "ok"
                  /\ c.name = "initialize" => isInitialized

\* an initialize whose sync met a failing nullifier query and completed
C10_Witness ==
    \E s \in Slots :
        LET c == calls[s]
        IN  /\ c.name = "initialize"
            /\ c.syncError
            /\ c.noteIdx > 0
            /\ c.pc = "done"
            /\ isInitialized

\* what one syncWithChain without any error makes of the state o, on the
\* chain of o
FullSync(o) ==
    LET events == getAccountUpdatedEvents(o.chainLog, o.lastSyncedBlock,
                                          o.currentBlock)
    IN  IF ~contractService \/ (o.notes = << >> /\ o.lastSyncedBlock = 0)
        THEN [notes |-> o.notes, merkleTree |-> o.merkleTree,
              lastSyncedBlock |-> o.lastSyncedBlock]
        ELSE [notes |-> [i \in 1..Len(o.notes) |->
                            [o.notes[i] EXCEPT !.spent =
                                @ \/ o.notes[i].nullifier \in o.nullifierUsed]],
              merkleTree |-> SyncTree(o.merkleTree, events),
              lastSyncedBlock |->
                  IF events = << >> THEN o.lastSyncedBlock
                  ELSE events[Len(events)].blockNumber + 1]

\* the chain is what it was when the first attempt of the call began
SameChain(c) ==
    /\ chainLog = c.origin[1].chainLog
    /\ nullifierUsed = c.origin[1].nullifierUsed
    /\ currentBlock = c.origin[1].currentBlock

\* C11: a syncWithChain that a collaborator error aborted can be retried: once
\* a later syncWithChain meets no error, on the same chain state, notes,
\* accumulator leaves and lastSyncedBlock are what one syncWithChain without
\* error would have made of the state the first attempt started from
C11_SyncRetryable ==
    \A s \in Slots :
        LET c == calls[s]
        IN  /\ c.name = "syncWithChain"
            /\ c.pc = "done" /\ ~c.syncError
            /\ SameChain(c)
            => LET full == FullSync(c.origin[1])
               IN  /\ notes = full.notes
                   /\ merkleTree.leaves = full.merkleTree.leaves
                   /\ lastSyncedBlock = full.lastSyncedBlock

\* a retry that completed after an attempt was aborted between two nullifier
\* queries, with a note marked and the watermark moved by the aborted attempt
C11_Witness ==
    \E s \in Slots :
        LET c == calls[s]
        IN  /\ c.name = "syncWithChain"
            /\ c.pc = "done" /\ ~c.syncError
            /\ c.aborted
            /\ SameChain(c)
            /\ Pre(c).notes # c.origin[1].notes
            /\ Pre(c).lastSyncedBlock # c.origin[1].lastSyncedBlock
            /\ notes # Pre(c).notes

\* C12: lastSyncedBlock never decreases, whatever wallet operation is run
\* (initialize with its reload from persistence, executeDeposit,
\* executeTransaction, executeWithdraw, markNotesSpent, syncWithChain); the
\* reset by clearStorage and the construction of a new instance are left out
C12_WatermarkNeverDecreases ==
    [][Construct \/ clearStorage \/ lastSyncedBlock' >= lastSyncedBlock]_vars

\* C13: after confirmed deposits and syncWithChain calls without error, on a
\* chain other users append to as well, the local leaf at every index is the
\* commitment the chain appended at that index
C13_AccumulatorMirrorsChain ==
    \A i \in 1..Len(merkleTree.leaves) :
        /\ i <= Len(chainLog)
        /\ merkleTree.leaves[i] = chainLog[i].commitment

RECURSIVE Occurrences(_, _)
\* how often commitment cm occurs in the sequence cs
Occurrences(cs, cm) ==
    IF cs = << >> THEN 0
    ELSE (IF cs[1] = cm THEN 1 ELSE 0) + Occurrences(Tail(cs), cm)

\* C14: no commitment the chain appended once occurs more than once in the
\* local accumulator, after any executeDeposit and syncWithChain calls, a
\* syncWithChain between a deposit's submission and its confirmation included
C14_SyncDeduplicates ==
    \A k \in 1..Len(chainLog) :
        Occurrences([i \in 1..Len(chainLog) |-> chainLog[i].commitment],
                    chainLog[k].commitment) = 1
        => Occurrences(merkleTree.leaves, chainLog[k].commitment) <= 1

\* C15: after a syncWithChain that went past the short-circuit and met no
\* error, on a chain whose used nullifiers did not change meanwhile, every
\* note whose nullifier the chain reports used is spent, and every note that
\* was unspent before the call and whose nullifier the chain reports unused
\* is still unspent
C15_SyncReconcilesSpent ==
    \A s \in Slots :
        LET c == calls[s]
        IN  /\ c.name = "syncWithChain"
            /\ c.pc = "done" /\ ~c.syncError
            /\ c.chainCalled
            /\ nullifierUsed = c.origin[1].nullifierUsed
            => /\ Len(notes) = Len(Pre(c).notes)
               /\ \A i \in 1..Len(notes) :
                     /\ notes[i].nullifier \in nullifierUsed
                        => notes[i].spent
                     /\ (/\ ~Pre(c).notes[i].spent
                         /\ notes[i].nullifier \notin nullifierUsed)
                        => ~notes[i].spent

\* such a sync has marked one note the chain reports used and has left
\* another one, reported unused, unspent
C15_Witness ==
    \E s \in Slots :
        LET c == calls[s]
        IN  /\ c.name = "syncWithChain"
            /\ c.pc = "done" /\ ~c.syncError
            /\ c.chainCalled
            /\ nullifierUsed = c.origin[1].nullifierUsed
            /\ \E i, j \in 1..Len(notes) :
                  /\ ~Pre(c).notes[i].spent /\ notes[i].spent
                  /\ notes[i].nullifier \in nullifierUsed
                  /\ ~notes[j].spent
                  /\ notes[j].nullifier \notin nullifierUsed

\* C16: a syncWithChain called with an empty note list and lastSyncedBlock
\* zero returns without any call to the chain collaborator and leaves notes,
\* accumulator, lastSyncedBlock and the persisted state as they were
C16_EmptyWalletSyncShortCircuits ==
    \A s \in Slots :
        LET c == calls[s]
        IN  /\ c.name = "syncWithChain"
            /\ Pre(c).notes = << >>
            /\ Pre(c).lastSyncedBlock = 0
            => /\ c.pc = "done" /\ c.result = "ok"
               /\ ~c.chainCalled
               /\ UnchangedSince(c)
               /\ storage = Pre(c).storage

\* the short-circuit was taken by a wallet that has a contract service, on a
\* chain that holds commitments the wallet does not have
C16_Witness ==
    \E s \in Slots :
        LET c == calls[s]
        IN  /\ c.name = "syncWithChain"
            /\ c.pc = "done"
            /\ Pre(c).notes = << >>
            /\ Pre(c).lastSyncedBlock = 0
            /\ contractService
            /\ chainLog # << >>
            /\ merkleTree.leaves = << >>

\* the deposit's note is spent, the chain holds the two commitments of the
\* transfer's outputs after the deposit's, and syncWithChain has received them
E2ETransferSynced ==
    /\ Len(notes) >= 1
    /\ notes[1].amount = E2EDeposit /\ notes[1].spent
    /\ Len(chainLog) = 3
    /\ chainLog[1].commitment = notes[1].commitment
    /\ \A k \in 2..3 : findLeafIndex(merkleTree, chainLog[k].commitment) # -1
    /\ lastSyncedBlock > chainLog[3].blockNumber

\* the ledger holds an unspent note of 60 and another unspent note of 40
E2EOutputNotes ==
    \E i, j \in 1..Len(notes) :
        /\ i # j
        /\ notes[i].amount = 60 /\ ~notes[i].spent
        /\ notes[j].amount = 40 /\ ~notes[j].spent

\* C17: end to end, after a confirmed deposit of 100, a confirmed transfer
\* that splits it into outputs of 60 and 40 without change, and the syncs that
\* receive the two new commitments, the original note is spent and two new
\* notes of 60 and 40 eventually appear in the ledger
C17_EndToEnd == E2ETransferSynced ~> E2EOutputNotes

\* C18: executeTransaction adds no note to the ledger and appends no leaf to
\* the accumulator; whatever its outcome, accumulator and lastSyncedBlock stay
\* as they were and every note keeps its position and its fields, except that
\* a successful call has set the spent flag of the notes it selected
C18_TransferCreatesNothing ==
    \A s \in Slots :
        LET c == calls[s]
            selected == {c.inputs[k] : k \in 1..Len(c.inputs)}
        IN  c.name = "executeTransaction" =>
              /\ merkleTree = Pre(c).merkleTree
              /\ lastSyncedBlock = Pre(c).lastSyncedBlock
              /\ Len(notes) = Len(Pre(c).notes)
              /\ \A i \in 1..Len(notes) :
                    /\ [notes[i] EXCEPT !.spent = FALSE]
                       = [Pre(c).notes[i] EXCEPT !.spent = FALSE]
                    /\ notes[i].spent # Pre(c).notes[i].spent
                       => c.pc = "done" /\ c.result = "ok" /\ i \in selected

\* a successful transfer with an output and a change output: the ledger has
\* as many notes as before, the accumulator the same leaves
C18_Witness ==
    \E s \in Slots :
        LET c == calls[s]
        IN  /\ c.name = "executeTransaction"
            /\ c.pc = "done" /\ c.result = "ok"
            /\ Len(c.outputs) >= 1
            /\ Len(c.finalOutputs) > Len(c.outputs)
            /\ notes # Pre(c).notes
            /\ Len(notes) = Len(Pre(c).notes)

\* the notes localStorage holds, as a reload reads them
PersistedNotes ==
    IF storage.notes = Null THEN << >> ELSE NotesFromJson(storage.notes[1])

\* every note of list b is in list a at the same position, the same but for
\* its spent flag
Extends(a, b) ==
    /\ Len(a) >= Len(b)
    /\ \A i \in 1..Len(b) :
          [a[i] EXCEPT !.spent = FALSE] = [b[i] EXCEPT !.spent = FALSE]

\* a step deletes no note: the ledger of the instance keeps its notes in
\* place (a new instance starts empty), localStorage keeps its notes in place
\* and holds those of the ledger, and an initialized wallet has loaded them
KeepsNotes ==
    /\ Construct \/ Extends(notes', notes)
    /\ Extends(PersistedNotes', PersistedNotes)
    /\ Extends(PersistedNotes', notes')
    /\ isInitialized' => Extends(notes', PersistedNotes')

\* C19: notes are never deleted: across initialize, executeDeposit,
\* executeTransaction, executeWithdraw, markNotesSpent, syncWithChain and the
\* reload from persistence, every note that was once in the ledger is still
\* in it, at its position (the steps of clearStorage, which empties ledger
\* and localStorage, are left aside here)
C19_NotesNeverDeleted == [][clearStorage \/ KeepsNotes]_vars

\* C20: in every state of the wallet, two notes at different positions of
\* the ledger differ in the pair (leafIndex, commitment), and so in their
\* nullifiers
C20_NotesAreDistinct ==
    \A i, j \in 1..Len(notes) :
        i # j => /\ <<notes[i].leafIndex, notes[i].commitment>>
                    # <<notes[j].leafIndex, notes[j].commitment>>
                 /\ notes[i].nullifier # notes[j].nullifier

\* an initialize called on a wallet that already held its notes has loaded
\* them again: two notes of the same token and amount, one per deposit
C20_Witness ==
    \E s \in Slots :
        LET c == calls[s]
        IN  /\ c.name = "initialize"
            /\ c.pc = "done" /\ c.result = "ok"
            /\ Len(Pre(c).notes) = 2
            /\ Len(notes) = 2
            /\ notes[1].amount = notes[2].amount
            /\ notes[1].token = notes[2].token
            /\ notes[1].leafIndex # notes[2].leafIndex

\* C21: markNotesSpent is idempotent: the note list it has produced is left
\* as it is by a second application with the same nullifiers, in whatever
\* letter case they are written, and a note whose nullifier is not in the
\* list is what it was before
C21_MarkNotesSpentIdempotent ==
    queryResult # Null =>
        LET r == queryResult[1]
            listed == {toLowerCaseHex(r.nullifiers[k]) :
                          k \in 1..Len(r.nullifiers)}
        IN  /\ markNotesSpent(notes, r.nullifiers) = notes
            /\ Len(notes) = Len(r.before)
            /\ \A i \in 1..Len(notes) :
                  toLowerCaseHex(notes[i].nullifier) \notin listed
                  => notes[i] = r.before[i]

\* markNotesSpent was given the nullifier of an unspent note in upper case
\* and the nullifier of a spent one: the first is spent now, the second
\* still is, and an unspent note that was not listed is left
C21_Witness ==
    /\ queryResult # Null
    /\ LET r == queryResult[1]
       IN  /\ Len(r.nullifiers) = 2
           /\ r.nullifiers[1].upper
           /\ \E i, j, k \in 1..Len(notes) :
                 /\ toLowerCaseHex(r.nullifiers[1])
                    = toLowerCaseHex(notes[i].nullifier)
                 /\ ~r.before[i].spent /\ notes[i].spent
                 /\ r.nullifiers[2] = notes[j].nullifier
                 /\ r.before[j].spent /\ notes[j].spent
                 /\ ~notes[k].spent

\* C22: on a wallet whose contract service exists, a withdrawal of more than
\* the unspent total of the token fails with an insufficient-balance error:
\* nothing is submitted to the chain and no note is marked spent
C22_WithdrawInsufficientBalance ==
    \A s \in Slots :
        LET c == calls[s]
        IN  /\ c.name = "executeWithdraw"
            /\ contractService
            /\ c.amount > TokenBalance(Pre(c).notes, c.token)
            => /\ c.pc = "done" /\ c.result = "Insufficient balance"
               /\ ~c.chainCalled /\ ~c.submitted
               /\ notes = Pre(c).notes

\* a write to localStorage has failed since call c started
WriteFailedIn(c) == storage.faults > Pre(c).storage.faults

\* the ledger, accumulator and watermark a call that ended with a failed
\* write has left in memory are those of the completed operation
KeptInMemory(c) ==
    CASE c.name = "executeDeposit" ->
            /\ Len(notes) = Len(Pre(c).notes) + 1
            /\ SubSeq(notes, 1, Len(Pre(c).notes)) = Pre(c).notes
            /\ notes[Len(notes)].commitment = c.commitment[1].commitment
            /\ notes[Len(notes)].amount = c.amount
            /\ ~notes[Len(notes)].spent
            /\ merkleTree.leaves = Append(Pre(c).merkleTree.leaves,
                                          c.commitment[1].commitment)
            /\ lastSyncedBlock = Pre(c).lastSyncedBlock
      [] c.name = "syncWithChain" ->
            /\ ~c.syncError
            /\ ((SameChain(c) /\ ~c.aborted)
                => LET full == FullSync(c.origin[1])
                   IN  /\ notes = full.notes
                       /\ merkleTree.leaves = full.merkleTree.leaves
                       /\ lastSyncedBlock = full.lastSyncedBlock)
      [] c.name \in {"executeTransaction", "executeWithdraw"} ->
            /\ notes = markNotesSpent(Pre(c).notes,
                                      NullifiersOf(Pre(c).notes, c.inputs))
            /\ merkleTree = Pre(c).merkleTree
            /\ lastSyncedBlock = Pre(c).lastSyncedBlock
      [] OTHER -> TRUE

\* C23: a write to localStorage that fails at the end of a mutating operation
\* neither rolls the operation back nor makes it fail: executeDeposit,
\* syncWithChain and the operations that end with markNotesSpent return their
\* normal result, and notes, accumulator and watermark keep the new values;
\* so does markNotesSpent called by itself
C23_WriteFailureKeepsMutation ==
    [][/\ \A s \in Slots :
             ((/\ calls'[s].name \in {"executeDeposit", "syncWithChain",
                                      "executeTransaction", "executeWithdraw"}
               /\ storage'.faults > calls'[s].pre[1].storage.faults)
              => (/\ calls'[s].pc = "done"
                  /\ calls'[s].result = "ok"
                  /\ KeptInMemory(calls[s])'))
        /\ ((calls' = calls /\ storage'.faults > storage.faults)
            => (/\ \E nl \in NullifierInputs :
                      notes' = markNotesSpent(notes, <<nl>>)
                /\ merkleTree' = merkleTree
                /\ lastSyncedBlock' = lastSyncedBlock))]_vars

\* a confirmed executeDeposit has returned although the write of its note
\* list failed: the ledger holds the new note, localStorage does not
C23_Witness ==
    \E s \in Slots :
        LET c == calls[s]
        IN  /\ c.name = "executeDeposit"
            /\ c.pc = "done" /\ c.result = "ok"
            /\ WriteFailedIn(c)
            /\ Len(notes) = Len(Pre(c).notes) + 1
            /\ storage.notes = Pre(c).storage.notes

\* C24: state is written back after every mutating operation: once an
\* executeDeposit, executeTransaction, executeWithdraw or syncWithChain of an
\* initialized wallet has ended, normally or by an error, and no write to
\* localStorage has failed, the persisted notes, accumulator leaves and
\* watermark are the ones in memory
C24_StateWrittenBack ==
    \A s \in Slots :
        LET c == calls[s]
        IN  /\ c.name \in {"executeDeposit", "executeTransaction",
                           "executeWithdraw", "syncWithChain"}
            /\ c.pc = "done"
            /\ isInitialized
            /\ storage.faults = 0
            => /\ PersistedNotes = notes
               /\ LoadedTree(storage, NewMerkleTree).leaves = merkleTree.leaves
               /\ LoadedLastBlock(storage, 0) = lastSyncedBlock

\* C25: exportPublicKeys reveals no private material: its result has the
\* fields address, viewPublicKey and spendPublicKey and no other, and it is
\* the same for every WalletKeys value that differs from the given one only
\* in viewPrivateKey and spendPrivateKey
C25_ExportRevealsNoPrivateKey ==
    (queryResult # Null /\ queryResult[1].op = "exportPublicKeys") =>
        LET r == queryResult[1].result
        IN  /\ DOMAIN r = {"address", "viewPublicKey", "spendPublicKey"}
            /\ \A vp, sp \in KeyBytes :
                  exportPublicKeys([keys[1] EXCEPT !.viewPrivateKey = vp,
                                                   !.spendPrivateKey = sp]) = r

\* the public keys of a WalletKeys value with two private keys of two bytes
\* have been exported
C25_Witness ==
    /\ queryResult # Null
    /\ queryResult[1].op = "exportPublicKeys"
    /\ Len(keys[1].viewPrivateKey) = 2
    /\ Len(keys[1].spendPrivateKey) = 2
    /\ keys[1].viewPrivateKey # keys[1].viewPublicKey
    /\ Len(queryResult[1].result.viewPublicKey) = 4
    /\ Len(queryResult[1].result.spendPublicKey) = 4

\* C26: deserializeKeys(serializeKeys(k)) is k in all five fields: address,
\* view private and public key, spend private and public key
C26_KeysRoundTrip ==
    (queryResult # Null /\ queryResult[1].op = "deserializeKeys") =>
        LET r == queryResult[1].result
            k == keys[1]
        IN  /\ r.address = k.address
            /\ r.viewPrivateKey = k.viewPrivateKey
            /\ r.viewPublicKey = k.viewPublicKey
            /\ r.spendPrivateKey = k.spendPrivateKey
            /\ r.spendPublicKey = k.spendPublicKey

\* keys with bytes below 16 and bytes above, and four different key fields,
\* have gone through serializeKeys and deserializeKeys
C26_Witness ==
    /\ queryResult # Null
    /\ queryResult[1].op = "deserializeKeys"
    /\ keys[1].viewPrivateKey = <<1, 171>>
    /\ keys[1].viewPublicKey = <<171, 1>>
    /\ keys[1].spendPrivateKey = <<1, 1>>
    /\ keys[1].spendPublicKey = <<171>>
    /\ queryResult[1].serialized.viewPrivateKey = <<0, 1, 10, 11>>

C29_OwnershipOfStealthAddress ==
    (queryResult # Null /\ queryResult[1].op = "checkOwnership") =>
        /\ queryResult[1].isMine
        /\ queryResult[1].wrongViewPriv # keys[1].viewPrivateKey
              => ~queryResult[1].isNotMine
        /\ \A t \in 0..(VIEW_TAGS - 1) :
              t # queryResult[1].stealthAddr.viewTag
                  => ~queryResult[1].tagged[t]

C29_Witness ==
    /\ queryResult # Null
    /\ queryResult[1].op = "checkOwnership"
    /\ queryResult[1].isMine
    /\ queryResult[1].wrongViewPriv # keys[1].viewPrivateKey
    /\ queryResult[1].wrongTagSame
    /\ ~queryResult[1].isNotMine

C31_SelectionIsGreedyPrefix ==
    queryResult # Null =>
        LET r == queryResult[1]
            sel == r.selected
            candidates == {i \in 1..Len(notes) :
                ~notes[i].spent
                    /\ toLowerCase(notes[i].token) = toLowerCase(r.token)}
            chosen == {sel[k] : k \in 1..Len(sel)}
        IN  /\ chosen \subseteq candidates
            /\ \A j, k \in 1..Len(sel) : j # k => sel[j] # sel[k]
            /\ r.total = SumSeq([k \in 1..Len(sel) |-> notes[sel[k]].amount])
            /\ \A i \in chosen, u \in candidates \ chosen :
                  notes[i].amount >= notes[u].amount
            /\ \A j, k \in 1..Len(sel) :
                  j < k => notes[sel[j]].amount >= notes[sel[k]].amount
            /\ Len(sel) > 0 =>
                  r.total - notes[sel[Len(sel)]].amount < r.target

\* two notes selected in descending order, a smaller candidate left behind
C31_Witness ==
    /\ queryResult # Null
    /\ LET r == queryResult[1]
       IN  /\ Len(r.selected) = 2
           /\ r.selected[1] > r.selected[2]
           /\ notes[r.selected[1]].amount > notes[r.selected[2]].amount
           /\ \E u \in 1..Len(notes) :
                 /\ ~notes[u].spent
                 /\ toLowerCase(notes[u].token) = toLowerCase(r.token)
                 /\ u # r.selected[1] /\ u # r.selected[2]

\* C32: the outputs executeTransaction sends to the prover conserve value:
\* a change output for the wallet's own public keys is appended exactly
\* when totalInput > totalOutput, its amount is totalInput - totalOutput,
\* and the amounts of the outputs sum to the amounts of the selected notes
C32_OutputsConserveValue ==
    \A s \in Slots :
        (calls[s].name = "executeTransaction" /\ calls[s].proverCalled) =>
            LET c == calls[s]
                totalOutput == SumSeq(c.outputs)
                totalInput == SumSeq([k \in 1..Len(c.inputs) |->
                                  Pre(c).notes[c.inputs[k]].amount])
            IN  /\ SubSeq(c.finalOutputs, 1, Len(c.outputs)) = c.outputs
                /\ Len(c.finalOutputs) = Len(c.outputs) +
                      (IF totalInput > totalOutput THEN 1 ELSE 0)
                /\ (totalInput > totalOutput) =>
                      /\ c.finalOutputs[Len(c.finalOutputs)]
                            = totalInput - totalOutput
                      /\ c.changeRecipient
                            = Some(exportPublicKeys(Pre(c).keys[1]))
                /\ (totalInput <= totalOutput) => c.changeRecipient = Null
                /\ SumSeq(c.finalOutputs) = totalInput

\* a transfer of less than its selected note, with a change output
C32_Witness ==
    \E s \in Slots :
        /\ calls[s].name = "executeTransaction"
        /\ calls[s].proverCalled
        /\ Len(calls[s].inputs) > 0
        /\ Len(calls[s].outputs) > 0
        /\ Len(calls[s].finalOutputs) = Len(calls[s].outputs) + 1
        /\ calls[s].changeRecipient # Null

\* C33: every note points at its own leaf: its leafIndex is below the
\* accumulator's nextLeafIndex and the leaf there is the note's commitment
C33_NotePointsAtItsLeaf ==
    \A i \in 1..Len(notes) :
        /\ notes[i].leafIndex < merkleTree.nextLeafIndex
        /\ merkleTree.leaves[notes[i].leafIndex + 1] = notes[i].commitment

\* C34: the watermark never skips events: when a syncWithChain advances
\* lastSyncedBlock, every commitment the chain emitted in a block at or
\* above the previous watermark and below the new one is in the accumulator
C34_WatermarkSkipsNoEvent ==
    [][lastSyncedBlock' > lastSyncedBlock =>
          \A i \in 1..Len(chainLog) :
              (chainLog[i].blockNumber >= lastSyncedBlock
                  /\ chainLog[i].blockNumber < lastSyncedBlock') =>
                  \E j \in 1..Len(merkleTree'.leaves) :
                      merkleTree'.leaves[j] = chainLog[i].commitment]_vars

\* C38: the range getAccountUpdatedEvents(fromBlock) queries up to 'latest',
\* from its effective start block to the current block inclusive, holds at
\* most MAX_BLOCK_RANGE blocks, and the effective start is not below
\* fromBlock
C38_RangeWithinLimit ==
    (queryResult # Null /\ queryResult[1].op = "getAccountUpdatedEvents") =>
        /\ queryResult[1].actualFromBlock >= queryResult[1].fromBlock
        /\ queryResult[1].currentBlock - queryResult[1].actualFromBlock + 1
              <= MAX_BLOCK_RANGE

\* C35: when two executeTransaction calls overlap at their suspension
\* points, no note is an input of both
C35_NoNoteSelectedTwice ==
    \A s, t \in AllSlots :
        (/\ s # t
         /\ calls[s].name = "executeTransaction"
         /\ calls[t].name = "executeTransaction"
         /\ calls[s].pc \in InFlightTx
         /\ calls[t].pc \in InFlightTx) =>
            {calls[s].inputs[k] : k \in 1..Len(calls[s].inputs)}
                \cap {calls[t].inputs[k] : k \in 1..Len(calls[t].inputs)} = {}

\* C36: executeDeposit is all-or-nothing for the ledger: the step that
\* ends it either ends a confirmed deposit with its leaf in the
\* accumulator and its note in the ledger, or ends a failed call that
\* changed neither; it never inserts a leaf without adding the note
C36_DepositAllOrNothing ==
    [][\A s \in Slots :
          (/\ calls'[s].name = "executeDeposit"
           /\ calls[s].pc # "done"
           /\ calls'[s].pc = "done") =>
              /\ (calls'[s].txOutcome = "success") =>
                    /\ calls'[s].result = "ok"
                    /\ \E i \in 1..Len(merkleTree'.leaves) :
                          merkleTree'.leaves[i]
                              = calls'[s].commitment[1].commitment
                    /\ \E i \in 1..Len(notes') :
                          notes'[i].commitment
                              = calls'[s].commitment[1].commitment
              /\ (merkleTree' # merkleTree) => Len(notes') = Len(notes) + 1
              /\ (calls'[s].txOutcome # "success") =>
                    (notes' = notes /\ merkleTree' = merkleTree)]_vars

\* C37: whenever initialize completes, the wallet's keys.address is the
\* address the walletClient of that call exposes, also when the instance
\* or the persisted keys come from an initialization with another account
C37_KeysBelongToSigner ==
    [][\A s \in Slots :
          (/\ calls'[s].name = "initialize"
           /\ calls[s].pc # "done"
           /\ calls'[s].pc = "done"
           /\ calls'[s].result = "ok") =>
              /\ keys' # Null
              /\ keys'[1].address = calls'[s].signer]_vars

\* the sum of the amounts of a note list
AmountsOf(ns) == SumSeq([k \in 1..Len(ns) |-> ns[k].amount])

\* C39: the balance queries agree for every note list: the values of
\* getBalanceByToken sum to getShieldedBalance, and for a token address in
\* any letter case the balance getBalanceByToken reports for it equals the
\* sum of the amounts of getNotesForToken, which is the total
\* selectNotesForAmount can reach for it
C39_BalanceQueriesAgree ==
    queryResult # Null =>
        LET r == queryResult[1]
        IN  /\ SumOfBalances(r.balances) = r.shielded
            /\ r.balance = AmountsOf(r.notesForToken)
            /\ AmountsOf(r.notesForToken) = r.reach

====
